---- MODULE Spec2Model ----
(***************************************************************************)
(* State-machine model of pyradigm's BaseDataset (src/pyradigm/base.py):   *)
(* three insertion-ordered mappings (data, targets, classes) keyed by      *)
(* samplet id, plus the metadata num_features, dtype, description and      *)
(* feature_names, under add_sample, del_sample, __setitem__, extend, the   *)
(* bulk constructor and the data setter.                                   *)
(***************************************************************************)
EXTENDS Integers, Sequences, FiniteSets, TLC

\* ---------------------------------------------------------------- bounds
MaxLen == 2

Ids == {"s1", "s2"}
\* two different samplet contents per vector length: the element value v of
\* the vector, the target, and class_id (omitted, i.e. None, or given)
Vals == {0, 1}
Label(v) == IF v = 0 THEN <<0, "None">> ELSE <<1, "A">>

\* ------------------------------------------------- python values, helpers
\* Python's None where a sequence is expected (feature_names, dict inputs)
NoneVal == [none |-> TRUE, v |-> <<>>]
Some(x) == [none |-> FALSE, v |-> x]

SeqsUpTo(S, n) == UNION {[1..k -> S] : k \in 0..n}

\* flat numeric vectors a caller can pass (after conversion by np.asarray):
\* every length from 0 (empty) to MaxLen, two different contents per length
Vector(k, v) == [i \in 1..k |-> v]
Vectors == {Vector(k, v) : k \in 0..MaxLen, v \in Vals}

\* An (Ordered)dict is a sequence of <<key, value>> pairs in insertion order
keys_of(d) == [i \in DOMAIN d |-> d[i][1]]
KeySet(d) == {d[i][1] : i \in DOMAIN d}
Has(d, k) == k \in KeySet(d)
Get(d, k) == d[CHOOSE i \in DOMAIN d : d[i][1] = k][2]
\* d[k] = v : an existing key keeps its position, a new key goes last
Put(d, k, v) ==
    IF Has(d, k)
    THEN [i \in DOMAIN d |-> IF d[i][1] = k THEN <<k, v>> ELSE d[i]]
    ELSE Append(d, <<k, v>>)
\* mutant of Pop: the oldest entry goes instead of the entry of k
Pop_first(d, k) == IF Has(d, k) THEN Tail(d) ELSE d
\* d.pop(k)
Pop(d, k) == SelectSeq(d, LAMBDA p : p[1] # k)
\* dict(d) == dict(e): same keys with the same values, order ignored
DictEq(d, e) ==
    /\ KeySet(d) = KeySet(e)
    /\ \A k \in KeySet(d) : Get(d, k) = Get(e, k)

\* ------------------------------------------------------------ the dataset
\* __init__ with no arguments
EmptyDataset ==
    [data |-> <<>>, targets |-> <<>>, classes |-> <<>>,
     num_features |-> 0, dtype |-> "None", description |-> "",
     feature_names |-> NoneVal]

num_samples(self) == Len(self.data)
keys(self) == keys_of(self.data)

\* 'f0', 'f1', ...
str_names(num) == [i \in 1..num |-> "f" \o ToString(i - 1)]
\* names a caller may supply that are not the defaults
alt_names(num) == [i \in 1..num |-> "x" \o ToString(i - 1)]

\* feature_names arguments going with a vector of length n: omitted, or
\* names of the caller ("assumed to be in the same order as features")
NameArgs(n) == {NoneVal, Some(alt_names(n))}

\* outcome of a call: the instance afterwards and the exception raised
Ok(self) == [tbl |-> self, exc |-> "ok", cause |-> "-"]
Raise(self, exc, cause) == [tbl |-> self, exc |-> exc, cause |-> cause]

\* check_features: np.asarray, reject size 0, ravel to one dimension
check_features(features) ==
    IF Len(features) <= 0
    THEN [exc |-> "ValueError", v |-> features]
    ELSE [exc |-> "ok", v |-> features]

\* type(features) of what check_features returns
TypeOf(features) == "ndarray"
IsInstance(ty, cls) == ty = cls

StoreSample(self, sample_id, features, target, class_id) ==
    [self EXCEPT !.data = Put(@, sample_id, features),
                 !.targets = Put(@, sample_id, target),
                 !.classes = Put(@, sample_id, class_id)]

\* mutant of add_sample: the duplicate check is gone, an existing id is
\* always overwritten
add_sample_no_dup_check(self, sample_id, features, target, class_arg, overwrite, feature_names) ==
    LET class_id == IF class_arg = "None" THEN ToString(target) ELSE class_arg
        stored == StoreSample(self, sample_id, features, target, class_id)
    IN
    IF check_features(features).exc # "ok" THEN Raise(self, "ValueError", "empty")
    ELSE IF num_samples(self) <= 0
    THEN Ok([stored EXCEPT
               !.dtype = TypeOf(features),
               !.num_features = Len(features),
               !.feature_names = IF feature_names = NoneVal
                                 THEN Some(str_names(Len(features)))
                                 ELSE @])
    ELSE IF self.num_features # Len(features)
    THEN Raise(self, "ValueError", "dimension")
    ELSE IF feature_names # NoneVal /\ self.feature_names # NoneVal
            /\ self.feature_names # feature_names
    THEN Raise(stored, "ValueError", "names")
    ELSE Ok(IF feature_names # NoneVal /\ self.feature_names = NoneVal
            THEN [stored EXCEPT !.feature_names = feature_names]
            ELSE stored)

add_sample(self, sample_id, features, target, class_arg, overwrite, feature_names) ==
    IF Has(self.data, sample_id) /\ ~overwrite
    THEN Raise(self, "ValueError", "duplicate")
    ELSE
      LET class_id == IF class_arg = "None" THEN ToString(target) ELSE class_arg
          chk == check_features(features)
          stored == StoreSample(self, sample_id, features, target, class_id)
      IN
      IF chk.exc # "ok" THEN Raise(self, "ValueError", "empty")
      ELSE IF num_samples(self) <= 0
      THEN Ok([stored EXCEPT
                 !.dtype = TypeOf(features),
                 !.num_features = Len(features),
                 !.feature_names = IF feature_names = NoneVal
                                   THEN Some(str_names(Len(features)))
                                   ELSE @])
      ELSE IF self.num_features # Len(features)
      THEN Raise(self, "ValueError", "dimension")
      ELSE IF ~IsInstance(TypeOf(features), self.dtype)
      THEN Raise(self, "TypeError", "dtype")
      ELSE IF feature_names # NoneVal
      THEN IF self.feature_names = NoneVal
           THEN Ok([stored EXCEPT !.feature_names = feature_names])
           ELSE IF self.feature_names # feature_names
                THEN Raise(stored, "ValueError", "names")
                ELSE Ok(stored)
      ELSE Ok(stored)

\* mutants of del_sample: one mapping forgotten; every entry removed;
\* num_features reset when the last samplet goes
del_sample_keeps_class(self, sample_id) ==
    IF ~Has(self.data, sample_id)
    THEN Raise(self, "warning", "absent")
    ELSE Ok([self EXCEPT !.data = Pop(@, sample_id),
                         !.targets = Pop(@, sample_id)])

del_sample_clears(self, sample_id) ==
    IF ~Has(self.data, sample_id)
    THEN Raise(self, "warning", "absent")
    ELSE Ok([self EXCEPT !.data = <<>>, !.classes = <<>>, !.targets = <<>>])

del_sample_resets(self, sample_id) ==
    IF ~Has(self.data, sample_id)
    THEN Raise(self, "warning", "absent")
    ELSE Ok([self EXCEPT !.data = Pop(@, sample_id),
                         !.classes = Pop(@, sample_id),
                         !.targets = Pop(@, sample_id),
                         !.num_features = IF Len(self.data) = 1 THEN 0 ELSE @])

del_sample(self, sample_id) ==
    IF ~Has(self.data, sample_id)
    THEN Raise(self, "warning", "absent")
    ELSE Ok([self EXCEPT !.data = Pop(@, sample_id),
                         !.classes = Pop(@, sample_id),
                         !.targets = Pop(@, sample_id)])

\* mutant of __setitem__: no dimensionality check
setitem_inserts_absent(self, item, features) ==
    IF check_features(features).exc # "ok"
    THEN Raise(self, "ValueError", "empty")
    ELSE IF self.num_features # Len(features)
    THEN Raise(self, "ValueError", "dimension")
    ELSE Ok([self EXCEPT !.data = Put(@, item, features)])
setitem_any_length(self, item, features) ==
    IF Has(self.data, item)
    THEN IF check_features(features).exc # "ok"
         THEN Raise(self, "ValueError", "empty")
         ELSE Ok([self EXCEPT !.data = Put(@, item, features)])
    ELSE Raise(self, "KeyError", "absent")

setitem(self, item, features) ==
    IF Has(self.data, item)
    THEN IF check_features(features).exc # "ok"
         THEN Raise(self, "ValueError", "empty")
         ELSE IF self.num_features # Len(features)
         THEN Raise(self, "ValueError", "dimension")
         ELSE Ok([self EXCEPT !.data = Put(@, item, features)])
    ELSE Raise(self, "KeyError", "absent")

\* extend: add_sample for each samplet of other, in other's order, until
\* one of the calls raises
RECURSIVE extend_from(_, _, _)
extend_from(self, other, i) ==
    IF i > Len(other.data) THEN Ok(self)
    ELSE LET samplet == other.data[i][1]
             r == add_sample(self, samplet, Get(other.data, samplet),
                             Get(other.targets, samplet),
                             Get(other.classes, samplet), FALSE, NoneVal)
         IN IF r.exc # "ok" THEN r ELSE extend_from(r.tbl, other, i + 1)

extend(self, other) == extend_from(self, other, 1)

\* mutant of __validate: the key sets are not compared
validate_lengths_only(data, classes, targets) ==
    IF ~(Len(data) = Len(targets) /\ Len(targets) = Len(classes))
    THEN "ValueError"
    ELSE IF Cardinality({Len(data[i][2]) : i \in DOMAIN data}) > 1
    THEN "ValueError"
    ELSE "ok"

\* __validate: same number of entries, same key sets, one vector size
validate(data, classes, targets) ==
    IF ~(Len(data) = Len(targets) /\ Len(targets) = Len(classes))
    THEN "ValueError"
    ELSE IF ~(KeySet(data) = KeySet(targets) /\ KeySet(targets) = KeySet(classes))
    THEN "ValueError"
    ELSE IF Cardinality({Len(data[i][2]) : i \in DOMAIN data}) > 1
    THEN "ValueError"
    ELSE "ok"

\* __init__(data=, targets=, classes=, feature_names=): all three None gives
\* the empty dataset, all three given the validated bulk construction, any
\* other combination is refused. A call that raises leaves no instance:
\* tbl is then the placeholder EmptyDataset.
init(data, targets, classes, feature_names) ==
    IF data = NoneVal /\ targets = NoneVal /\ classes = NoneVal
    THEN Ok(EmptyDataset)
    ELSE IF data # NoneVal /\ targets # NoneVal /\ classes # NoneVal
    THEN IF validate(data.v, targets.v, classes.v) # "ok"
         THEN Raise(EmptyDataset, "ValueError", "validate")
         ELSE IF Len(data.v) = 0
         THEN Raise(EmptyDataset, "IndexError", "no samplet")
         ELSE LET features0 == data.v[1][2] IN
              Ok([data |-> data.v, targets |-> targets.v, classes |-> classes.v,
                  num_features |-> Len(features0), dtype |-> TypeOf(features0),
                  description |-> "",
                  feature_names |-> IF feature_names = NoneVal
                                    THEN Some(str_names(Len(features0)))
                                    ELSE feature_names])
    ELSE Raise(EmptyDataset, "ValueError", "incorrect way")

\* the data setter (dataset.data = values)
set_data(self, values) ==
    IF Len(self.targets) # Len(values)
    THEN Raise(self, "ValueError", "count")
    ELSE IF Len(values) < 1
    THEN Raise(self, "ValueError", "empty")
    ELSE LET num == Len(values[1][2]) IN
         Ok([self EXCEPT !.data = values,
                         !.num_features = num,
                         !.feature_names = Some(str_names(num))])

\* ------------------------------------------------------ second operands
\* datasets handed to extend: built by add_sample from the empty dataset
RECURSIVE BuildOnes(_, _, _)
BuildOnes(self, ids, n) ==
    IF ids = <<>> THEN self
    ELSE BuildOnes(add_sample(self, Head(ids), Vector(n, 1), Label(1)[1], Label(1)[2],
                              FALSE, NoneVal).tbl, Tail(ids), n)

IdSeqs == {s \in SeqsUpTo(Ids, Cardinality(Ids)) :
             \A i, j \in DOMAIN s : i # j => s[i] # s[j]}

Others == {BuildOnes(EmptyDataset, s, n) : s \in IdSeqs, n \in 1..MaxLen}

\* ------------------------------------------------------------------ state
VARIABLES
    t,      \* the dataset instance
    prev,   \* the instance as it was before the last call
    base,   \* after add_sample(id) then del_sample(id): the instance before
            \* the add_sample, and the add_sample's outcome
    last,   \* the last call: operation, arguments, exception
    args,   \* the arguments of the constructor call under construction
    res,    \* what the last derivation call returned (or raised)
    right   \* the right operand of dataset + dataset

vars == <<t, prev, base, last, args, res, right>>

\* nothing returned yet
NoRes == [tbl |-> EmptyDataset, exc |-> "-", cause |-> "-"]

NoBase == [some |-> FALSE, v |-> EmptyDataset, exc |-> "-"]

Call(op, id, n, ow, names, r) ==
    [op |-> op, id |-> id, nfeat |-> n, overwrite |-> ow,
     named |-> names # NoneVal,
     exc |-> r.exc, cause |-> r.cause]

NoArgs == [data |-> NoneVal, targets |-> NoneVal, classes |-> NoneVal,
           feature_names |-> NoneVal]

\* the state after the constructor call without arguments
Init ==
    /\ t = EmptyDataset
    /\ prev = EmptyDataset
    /\ base = NoBase
    /\ last = Call("init", "-", 0, FALSE, NoneVal, Ok(EmptyDataset))
    /\ args = NoArgs
    /\ res = NoRes
    /\ right = EmptyDataset

AddSample ==
    \E id \in Ids, k \in 0..MaxLen, v \in Vals, ow \in BOOLEAN :
    \E nm \in NameArgs(k) :
       LET f == Vector(k, v)
           r == add_sample(t, id, f, Label(v)[1], Label(v)[2], ow, nm) IN
       /\ t' = r.tbl
       /\ prev' = t
       /\ base' = NoBase
       /\ last' = Call("add", id, Len(f), ow, nm, r)
       /\ UNCHANGED <<args, res, right>>

DelSample ==
    \E id \in Ids :
       LET r == del_sample(t, id) IN
       /\ t' = r.tbl
       /\ prev' = t
       /\ base' = IF last.op = "add" /\ last.id = id
                  THEN [some |-> TRUE, v |-> prev, exc |-> last.exc] ELSE NoBase
       /\ last' = Call("del", id, 0, FALSE, NoneVal, r)
       /\ UNCHANGED <<args, res, right>>

SetItem ==
    \E id \in Ids, f \in Vectors :
       LET r == setitem(t, id, f) IN
       /\ t' = r.tbl
       /\ prev' = t
       /\ base' = NoBase
       /\ last' = Call("setitem", id, Len(f), FALSE, NoneVal, r)
       /\ UNCHANGED <<args, res, right>>

Extend ==
    \E other \in Others :
       LET r == extend(t, other) IN
       /\ t' = r.tbl
       /\ prev' = t
       /\ base' = NoBase
       /\ last' = Call("extend", "-", other.num_features, FALSE, NoneVal, r)
       /\ UNCHANGED <<args, res, right>>

Next == AddSample \/ DelSample \/ SetItem \/ Extend

Spec == Init /\ [][Next]_vars

\* ---------------------------------------------- constructor and setters
\* dicts a caller can pass: distinct ids in any order, values from S
DictsOver(S) ==
    UNION {{[i \in DOMAIN ks |-> <<ks[i], vs[i]>>] : vs \in [DOMAIN ks -> S]}
           : ks \in IdSeqs}
OrNone(S) == {NoneVal} \cup {Some(x) : x \in S}

\* a constructor call about to be made, with its arguments
InitCtor ==
    LET CtorArgs ==
            [data : OrNone(DictsOver(Vectors)),
             targets : OrNone(DictsOver({Label(v)[1] : v \in Vals})),
             classes : OrNone(DictsOver({"0", "A"})),
             feature_names : {NoneVal} \cup {Some(alt_names(k)) : k \in 1..MaxLen}]
    IN
    /\ args \in CtorArgs
    /\ t = EmptyDataset
    /\ prev = EmptyDataset
    /\ base = NoBase
    /\ last = Call("none", "-", 0, FALSE, NoneVal, Ok(EmptyDataset))
    /\ res = NoRes
    /\ right = EmptyDataset

Construct ==
    /\ last.op = "none"
    /\ LET r == init(args.data, args.targets, args.classes, args.feature_names) IN
       /\ t' = r.tbl
       /\ last' = Call("init", "-", 0, FALSE, args.feature_names, r)
    /\ UNCHANGED <<prev, base, args, res, right>>

SpecCtor == InitCtor /\ [][Construct]_vars

SetData ==
    LET \* dicts assigned through the data setter: vectors of every length
        SetterDicts == DictsOver({Vector(k, 1) : k \in 0..MaxLen})
    IN
    \E values \in SetterDicts :
       LET r == set_data(t, values) IN
       /\ t' = r.tbl
       /\ prev' = t
       /\ base' = NoBase
       /\ last' = Call("set_data", "-", 0, FALSE, NoneVal, r)
       /\ UNCHANGED <<args, res, right>>

NextSet == AddSample \/ SetData

SpecSet == Init /\ [][NextSet]_vars

\* ------------------------------------------------------------ derivations
\* the description setter
set_description(self, str_val) ==
    IF str_val = ""
    THEN Raise(self, "ValueError", "description can not be empty")
    ELSE Ok([self EXCEPT !.description = str_val])

\* the feature_names setter: len(names) must equal num_features (len(None)
\* is a TypeError)
set_feature_names(self, names) ==
    IF names = NoneVal
    THEN Raise(self, "TypeError", "len(None)")
    ELSE IF Len(names.v) # self.num_features
    THEN Raise(self, "ValueError", "names length")
    ELSE Ok([self EXCEPT !.feature_names = names])

Range(s) == {s[i] : i \in DOMAIN s}

\* __get_subset_from_dict: the entries of input_dict whose key is in subset,
\* in the order of input_dict
get_subset_from_dict_skips(input_dict, subset) ==
    SelectSeq(input_dict, LAMBDA p : p[1] \in Range(Tail(subset)))
get_subset_from_dict(input_dict, subset) ==
    SelectSeq(input_dict, LAMBDA p : p[1] \in Range(subset))

\* get_subset: bulk construction from the three filtered mappings, then the
\* description, feature_names (through its setter) and dtype of the source.
\* A call that raises returns nothing: tbl is then the placeholder.
get_subset(self, subset_ids) ==
    LET num_existing_keys ==
            Cardinality({i \in DOMAIN subset_ids : Has(self.data, subset_ids[i])})
    IN
    IF num_existing_keys > 0
    THEN LET data == get_subset_from_dict(self.data, subset_ids)
             targets == get_subset_from_dict(self.targets, subset_ids)
             classes == get_subset_from_dict(self.classes, subset_ids)
             made == init(Some(data), Some(targets), Some(classes), NoneVal)
         IN
         IF made.exc # "ok" THEN made
         ELSE LET described ==
                      [made.tbl EXCEPT !.description =
                          @ \o "\n Subset derived from: " \o self.description]
                  named == set_feature_names(described, self.feature_names)
              IN IF named.exc # "ok"
                 THEN Raise(EmptyDataset, named.exc, named.cause)
                 ELSE Ok([named.tbl EXCEPT !.dtype = self.dtype])
    ELSE [tbl |-> EmptyDataset, exc |-> "warning", cause |-> "none exist"]

Take(arr, idx) ==
    [i \in DOMAIN idx |->
        arr[IF idx[i] < 0 THEN Len(arr) + idx[i] + 1 ELSE idx[i] + 1]]
min(s) == CHOOSE x \in Range(s) : \A y \in Range(s) : x <= y

get_feature_subset(self, subset_idx) ==
    LET \* numpy indexing of a one-dimensional array by a list of integers: an index
        \* i < 0 addresses position size + i, an index outside -size..size-1 raises
        IndexInBounds(idx, size) ==
            \A i \in DOMAIN idx : 0 - size <= idx[i] /\ idx[i] < size
        max(s) == CHOOSE x \in Range(s) : \A y \in Range(s) : y <= x
        \* the range check of get_feature_subset as python evaluates it:
        \* (not (max < num_features)) and (min >= 0)
        indices_out_of_range ==
            (~(max(subset_idx) < self.num_features)) /\ (min(subset_idx) >= 0)
    IN
    IF subset_idx = <<>>
    THEN Raise(EmptyDataset, "ValueError", "max of empty")
    ELSE IF indices_out_of_range
    THEN Raise(EmptyDataset, "UnboundLocalError", "out of range")
    ELSE IF \E i \in DOMAIN self.data :
               ~IndexInBounds(subset_idx, Len(self.data[i][2]))
    THEN Raise(EmptyDataset, "IndexError", "features")
    ELSE IF self.feature_names = NoneVal
    THEN Raise(EmptyDataset, "TypeError", "None[idx]")
    ELSE IF ~IndexInBounds(subset_idx, Len(self.feature_names.v))
    THEN Raise(EmptyDataset, "IndexError", "feature_names")
    ELSE LET sub_data == [i \in DOMAIN self.data |->
                            <<self.data[i][1], Take(self.data[i][2], subset_idx)>>]
             new_descr == "Subset features derived from: \n " \o self.description
             made == init(Some(sub_data), Some(self.targets), Some(self.classes),
                          Some(Take(self.feature_names.v, subset_idx)))
         IN IF made.exc # "ok" THEN made
            ELSE Ok([made.tbl EXCEPT !.description = new_descr])

IsEmptyArg(subset_ids) ==
    \/ subset_ids.kind = "list" /\ subset_ids.v = <<>>
    \/ subset_ids.kind = "set" /\ subset_ids.v = {}
    \/ subset_ids.kind = "str" /\ subset_ids.v = ""

\* what a call returning a matrix (a sequence of rows) hands back
Matrix(rows, exc, cause) ==
    [tbl |-> EmptyDataset, exc |-> exc, cause |-> cause, matrix |-> rows]

matrix_in_table_order(self, subset_ids) ==
    LET ids == IF subset_ids.kind = "str" THEN <<subset_ids.v>> ELSE subset_ids.v
        kept == SelectSeq(self.data, LAMBDA p : p[1] \in Range(ids))
    IN Matrix([i \in DOMAIN kept |-> kept[i][2]], "ok", "-")
matrix_in_given_order(self, subset_ids) ==
    LET ids == IF subset_ids.kind = "str" THEN <<subset_ids.v>> ELSE subset_ids.v
    IN Matrix([i \in DOMAIN ids |-> Get(self.data, ids[i])], "ok", "-")

get_data_matrix_in_order(self, subset_ids) ==
    IF IsEmptyArg(subset_ids)
    THEN Matrix(<<>>, "warning", "empty subset")
    ELSE IF subset_ids.kind = "set"
    THEN Matrix(<<>>, "TypeError", "set is not ordered")
    ELSE LET ids == IF subset_ids.kind = "str" THEN <<subset_ids.v>> ELSE subset_ids.v
             num_existing_keys ==
                 Cardinality({i \in DOMAIN ids : Has(self.data, ids[i])})
         IN IF num_existing_keys < Len(ids)
            THEN Matrix(<<>>, "ValueError", "id does not exist")
            ELSE matrix_in_given_order(self, subset_ids)

\* callables handed to transform, by name, and one value that is no callable
Funcs == {"identity", "incr", "first", "raises_on_one", "by_value", "empty"}
callable(func) == func \in Funcs
\* func(data): the returned vector, or the exception func raises
Apply(func, data) ==
    CASE func = "identity" -> [exc |-> "ok", v |-> data]
      [] func = "incr" -> [exc |-> "ok", v |-> [i \in DOMAIN data |-> data[i] + 1]]
      [] func = "first" -> [exc |-> "ok", v |-> <<data[1]>>]
      [] func = "raises_on_one" ->
             IF data[1] = 1 THEN [exc |-> "RuntimeError", v |-> <<>>]
             ELSE [exc |-> "ok", v |-> data]
      [] func = "by_value" ->
             IF data[1] = 1 THEN [exc |-> "ok", v |-> <<data[1]>>]
             ELSE [exc |-> "ok", v |-> data]
      [] func = "empty" -> [exc |-> "ok", v |-> <<>>]

\* the value of "{}\n{}".format(func_description, self.description) when
\* func_description is left at its default None
xfm_description(self) == "None" \o "\n" \o self.description

transform_no_func(self, func) ==
    Ok([self EXCEPT !.description = xfm_description(self)])

RECURSIVE transform_skipping(_, _, _, _)
transform_skipping(self, func, i, xfm_ds) ==
    IF i > Len(self.data)
    THEN Ok([xfm_ds EXCEPT !.description = xfm_description(self)])
    ELSE LET samplet == self.data[i][1]
             xfm_data == Apply(func, self.data[i][2])
             added == add_sample(xfm_ds, samplet, xfm_data.v, Get(self.targets, samplet),
                                 Get(self.classes, samplet), FALSE, NoneVal)
         IN transform_skipping(self, func, i + 1,
                               IF xfm_data.exc = "ok" /\ added.exc = "ok"
                               THEN added.tbl ELSE xfm_ds)
transform_skips_failures(self, func) ==
    IF ~callable(func)
    THEN Raise(EmptyDataset, "TypeError", "not a callable")
    ELSE transform_skipping(self, func, 1, EmptyDataset)

\* the loop of transform from the i-th samplet on; xfm_ds is the new dataset
\* so far, dropped when func or add_sample raises
RECURSIVE transform_from(_, _, _, _)
transform_from(self, func, i, xfm_ds) ==
    IF i > Len(self.data)
    THEN Ok([xfm_ds EXCEPT !.description = xfm_description(self)])
    ELSE LET samplet == self.data[i][1]
             xfm_data == Apply(func, self.data[i][2])
         IN IF xfm_data.exc # "ok"
            THEN Raise(EmptyDataset, xfm_data.exc, "func raised")
            ELSE LET added == add_sample(xfm_ds, samplet, xfm_data.v,
                                         Get(self.targets, samplet),
                                         Get(self.classes, samplet), FALSE, NoneVal)
                 IN IF added.exc # "ok"
                    THEN Raise(EmptyDataset, added.exc, added.cause)
                    ELSE transform_from(self, func, i + 1, added.tbl)

transform(self, func) ==
    IF ~callable(func)
    THEN Raise(EmptyDataset, "TypeError", "not a callable")
    ELSE transform_from(self, func, 1, EmptyDataset)

\* the copy constructor: __init__(in_dataset=...) refuses a dataset without
\* samplets, otherwise deep-copies every attribute
\* __copy: a deep copy of each of the seven fields of other
copy(other) ==
    [data |-> other.data, classes |-> other.classes, targets |-> other.targets,
     dtype |-> other.dtype, description |-> other.description,
     feature_names |-> other.feature_names, num_features |-> other.num_features]

\* mutant of copy_init: a source without samplets is copied too
copy_init_of_any(in_dataset) == Ok(copy(in_dataset))
copy_init(in_dataset) ==
    IF num_samples(in_dataset) <= 0
    THEN Raise(EmptyDataset, "ValueError", "dataset to copy is empty")
    ELSE Ok(copy(in_dataset))

\* np.concatenate of two one-dimensional arrays
concatenate(a, b) == a \o b

\* the loop of the identical-keys branch of __add__ from the i-th key of self
RECURSIVE concat_from(_, _, _, _)
concat_from(self, other_ds, i, combined) ==
    IF i > Len(self.data) THEN Ok(combined)
    ELSE LET samplet == self.data[i][1]
             comb_data == concatenate(self.data[i][2], Get(other_ds.data, samplet))
             added == add_sample(combined, samplet, comb_data,
                                 Get(self.targets, samplet),
                                 Get(self.classes, samplet), FALSE, NoneVal)
         IN IF added.exc # "ok"
            THEN Raise(EmptyDataset, added.exc, added.cause)
            ELSE concat_from(self, other_ds, i + 1, added.tbl)

\* __add__, identical keys: features of each samplet side by side; the
\* comparison of the two OrderedDicts of classes depends on their order
add_features(self, other_ds) ==
    IF ~(self.classes = other_ds.classes)
    THEN Raise(EmptyDataset, "ValueError", "class identifiers differ")
    ELSE IF other_ds.num_features < 1
    THEN Raise(EmptyDataset, "ValueError", "no features to concatenate")
    ELSE LET combined == concat_from(self, other_ds, 1, EmptyDataset) IN
         IF combined.exc # "ok" THEN combined
         ELSE IF self.feature_names = NoneVal \/ other_ds.feature_names = NoneVal
         THEN Raise(EmptyDataset, "ValueError", "concatenate(None)")
         ELSE LET comb_names == concatenate(self.feature_names.v,
                                            other_ds.feature_names.v)
                  named == set_feature_names(combined.tbl, Some(comb_names))
              IN IF named.exc # "ok"
                 THEN Raise(EmptyDataset, named.exc, named.cause)
                 ELSE named

\* __add__, disjoint keys and equal num_features: a copy of self extended
\* by other
\* mutant of add_samplets: a copy of other extended by self
add_samplets_to_other(self, other_ds) ==
    LET combined == copy_init(other_ds) IN
    IF combined.exc # "ok" THEN combined
    ELSE LET extended == extend(combined.tbl, self) IN
         IF extended.exc # "ok"
         THEN Raise(EmptyDataset, extended.exc, extended.cause)
         ELSE extended
add_samplets(self, other_ds) ==
    LET combined == copy_init(self) IN
    IF combined.exc # "ok" THEN combined
    ELSE LET extended == extend(combined.tbl, other_ds) IN
         IF extended.exc # "ok"
         THEN Raise(EmptyDataset, extended.exc, extended.cause)
         ELSE extended

add_any_overlap(self, other_ds) ==
    IF KeySet(self.data) = KeySet(other_ds.data)
    THEN add_features(self, other_ds)
    ELSE IF self.num_features = other_ds.num_features
    THEN copy_init(self)
    ELSE Raise(EmptyDataset, "ArithmeticError", "could not be combined")
\* __add__
add(self, other_ds) ==
    IF KeySet(self.data) = KeySet(other_ds.data)
    THEN add_features(self, other_ds)
    ELSE IF Cardinality(KeySet(self.data) \cap KeySet(other_ds.data)) < 1
            /\ self.num_features = other_ds.num_features
    THEN add_samplets(self, other_ds)
    ELSE Raise(EmptyDataset, "ArithmeticError", "could not be combined")

\* the loop of __sub__: del_sample on the copy for each key of other
RECURSIVE del_from(_, _, _)
del_from(removed, other_ds, i) ==
    IF i > Len(other_ds.data) THEN removed
    ELSE del_from(del_sample(removed, other_ds.data[i][1]).tbl, other_ds, i + 1)

sub_first_only(self, other_ds) ==
    IF other_ds.data = <<>> THEN Ok(self)
    ELSE Ok(del_sample(self, other_ds.data[1][1]).tbl)
\* __sub__: a deep copy of self without the samplets of other; it warns when
\* no id of other is in self and when every id of self is in other
sub(self, other_ds) ==
    LET num_existing_keys == Cardinality(KeySet(self.data) \cap KeySet(other_ds.data))
        removed == del_from(self, other_ds, 1)
    IN IF num_existing_keys < 1
       THEN [tbl |-> removed, exc |-> "warning", cause |-> "nothing to do"]
       ELSE IF Len(keys(self)) = num_existing_keys
       THEN [tbl |-> removed, exc |-> "warning", cause |-> "output would be empty"]
       ELSE Ok(removed)

\* class_sizes: Counter(self.classes.values()), as a function on class_set
class_set(self) == {self.classes[i][2] : i \in DOMAIN self.classes}
class_sizes(self) ==
    [cls \in class_set(self) |->
        Cardinality({i \in DOMAIN self.classes : self.classes[i][2] = cls})]

\* A fraction is a pair <<numerator, denominator>> of naturals.
InOpenUnit(perc) == 0 < perc[1] /\ perc[1] < perc[2]
\* perc < 1.0 / n
BelowOneOver(perc, n) == perc[1] * n < perc[2]

\* keys_with_value: the keys of a dict that hold a value (as a set); for the
\* classes dict, the id pool of a class
keys_with_value(dictionary, value) ==
    {dictionary[i][1] : i \in {j \in DOMAIN dictionary : dictionary[j][2] = value}}
\* the sets of ids that hold, of every class, a number of ids allowed by quota
PerClassDraws(self, quota) ==
    {drawn \in SUBSET KeySet(self.data) :
        \A cls \in class_set(self) :
            Cardinality(drawn \cap keys_with_value(self.classes, cls)) \in quota[cls]}
\* what the random per-class draw may return for a fraction: of every class
\* pool, the fraction of its size, rounded down or up
random_subset_ids(self, perc_per_class) ==
    PerClassDraws(self,
        [cls \in class_set(self) |->
            LET whole == perc_per_class[1] * class_sizes(self)[cls]
                down == whole \div perc_per_class[2]
            IN {down, IF whole % perc_per_class[2] = 0 THEN down ELSE down + 1}])
\* what the random per-class draw may return for a count: of every class
\* pool, that many ids, or the whole pool when it is smaller
random_subset_ids_by_count(self, count_per_class) ==
    PerClassDraws(self,
        [cls \in class_set(self) |->
            {IF count_per_class < class_sizes(self)[cls]
             THEN count_per_class ELSE class_sizes(self)[cls]}])

\* what train_test_split_ids returns: the two id lists (as sets), or the
\* exception
Lists(train, test, exc, cause) ==
    [tbl |-> EmptyDataset, exc |-> exc, cause |-> cause, train |-> train, test |-> test]
NoLists(exc, cause) == Lists({}, {}, exc, cause)

split_lists_train_only(self, train_set) ==
    IF Cardinality(train_set) < 1
    THEN NoLists("ValueError", "empty training or test set")
    ELSE Lists(train_set, KeySet(self.data) \ train_set, "ok", "-")
split_lists(self, train_set) ==
    LET test_set == KeySet(self.data) \ train_set IN
    IF Cardinality(train_set) < 1 \/ Cardinality(test_set) < 1
    THEN NoLists("ValueError", "empty training or test set")
    ELSE Lists(train_set, test_set, "ok", "-")

\* train_test_split_ids; drawn is what the random draw returns when the
\* arguments are accepted
train_test_split_ids(self, train_perc, count_per_class, drawn) ==
    IF class_set(self) = {}
    THEN NoLists("ValueError", "min of no class sizes")
    ELSE
    LET sizes == class_sizes(self)
        smallest_class_size ==
            CHOOSE n \in {sizes[c] : c \in DOMAIN sizes} :
                \A c \in DOMAIN sizes : n <= sizes[c]
    IN
    IF count_per_class.none /\ train_perc.none
    THEN NoLists("TypeError", "0.0 < None")
    ELSE IF count_per_class.none /\ InOpenUnit(train_perc.v)
    THEN IF BelowOneOver(train_perc.v, smallest_class_size)
         THEN NoLists("ValueError", "percentage too low")
         ELSE split_lists(self, drawn)
    ELSE IF train_perc.none /\ count_per_class.v > 0
    THEN IF count_per_class.v >= smallest_class_size
         THEN NoLists("ValueError", "count too high")
         ELSE split_lists(self, drawn)
    ELSE NoLists("ValueError", "invalid selection")

\* ------------------------------------------------ __eq__ and compatibility
\* what a comparison returns: a boolean, or the exception
Bool(value) == [tbl |-> EmptyDataset, exc |-> "ok", cause |-> "-", value |-> value]
NoBool(exc, cause) == [tbl |-> EmptyDataset, exc |-> exc, cause |-> cause, value |-> FALSE]

\* np.all(a == b) for two one-dimensional arrays: elementwise for equal
\* lengths; an array of one element is broadcast against the other one;
\* other lengths cannot be broadcast, and a == b is then the scalar False or
\* raises ValueError, depending on the numpy version (elementwise_raises)
np_all_equal(a, b, elementwise_raises) ==
    IF Len(a) = Len(b) THEN Bool(\A i \in DOMAIN a : a[i] = b[i])
    ELSE IF Len(a) = 1 THEN Bool(\A i \in DOMAIN b : a[1] = b[i])
    ELSE IF Len(b) = 1 THEN Bool(\A i \in DOMAIN a : a[i] = b[1])
    ELSE IF elementwise_raises
    THEN NoBool("ValueError", "operands could not be broadcast together")
    ELSE Bool(FALSE)

\* the loop of __eq__ over self.keys from position i on
RECURSIVE eq_data_from(_, _, _, _)
eq_data_from(self, other_ds, i, elementwise_raises) ==
    IF i > Len(self.data) THEN Bool(TRUE)
    ELSE LET key == self.data[i][1]
             same == np_all_equal(self.data[i][2], Get(other_ds.data, key),
                                  elementwise_raises)
         IN IF same.exc # "ok" THEN same
            ELSE IF ~same.value THEN Bool(FALSE)
            ELSE eq_data_from(self, other_ds, i + 1, elementwise_raises)

\* __eq__; two objects with the same data dict have equal data, so the
\* id(...) shortcut returns what the loop returns
eq(self, other_ds, elementwise_raises) ==
    IF KeySet(self.data) # KeySet(other_ds.data) THEN Bool(FALSE)
    ELSE IF ~DictEq(self.classes, other_ds.classes) THEN Bool(FALSE)
    ELSE eq_data_from(self, other_ds, 1, elementwise_raises)

\* reqd_num_features: None, one int for all, or a list of ints
NoReqd == [kind |-> "None", v |-> <<>>]

\* the comparison of one dataset against the pivot: the keys lists and the
\* classes OrderedDicts are compared, both sensitive to the insertion order
is_compatible(pivot, ds) ==
    ~(\/ num_samples(pivot) # num_samples(ds)
      \/ keys(pivot) # keys(ds)
      \/ pivot.classes # ds.classes)

\* check_compatibility from the pivot on
compare_to_pivot(datasets, check_dimensionality, reqd_num_features) ==
    LET \* what check_compatibility returns (without the size descriptor), or the
        \* exception
        Flags(all_are_compatible, compatible, dim_mismatch) ==
            [tbl |-> EmptyDataset, exc |-> "ok", cause |-> "-",
             value |-> all_are_compatible, compatible |-> compatible,
             dim_mismatch |-> dim_mismatch]
    IN
    LET pivot == datasets[1]
        compatible == [i \in 1..(Len(datasets) - 1) |->
                          is_compatible(pivot, datasets[i + 1])]
        dim_mismatch ==
            check_dimensionality /\
            \E i \in DOMAIN datasets : datasets[i].num_features # reqd_num_features[i]
    IN Flags(\A i \in DOMAIN compatible : compatible[i], compatible, dim_mismatch)

check_compatibility(datasets, reqd_num_features) ==
    LET NoFlags(exc, cause) ==
            [tbl |-> EmptyDataset, exc |-> exc, cause |-> cause,
             value |-> FALSE, compatible |-> <<>>, dim_mismatch |-> FALSE]
        \* the names bound in the module base.py: its imports and its two definitions
        GlobalNames ==
            {"copy", "os", "pickle", "random", "warnings", "Counter", "OrderedDict",
             "Sequence", "islice", "isfile", "realpath", "version_info", "np", "ABC",
             "abstractmethod", "BaseDataset", "check_compatibility"}
    IN
    LET num_datasets == Len(datasets)
        reqd_list == IF reqd_num_features.kind = "int"
                     THEN [i \in 1..num_datasets |-> reqd_num_features.v[1]]
                     ELSE reqd_num_features.v
    IN IF reqd_num_features.kind = "list" /\ Len(reqd_num_features.v) # num_datasets
       THEN NoFlags("ValueError", "dimensionality for a different number of datasets")
       ELSE IF num_datasets = 0
       THEN NoFlags("IndexError", "list index out of range")
       ELSE IF "MLDataset" \notin GlobalNames
       THEN NoFlags("NameError", "name 'MLDataset' is not defined")
       ELSE compare_to_pivot(datasets, reqd_num_features.kind # "None", reqd_list)

\* compatible
compatible(self, another) ==
    LET r == check_compatibility(<<self, another>>, NoReqd)
    IN IF r.exc = "ok" THEN Bool(r.value) ELSE NoBool(r.exc, r.cause)

\* ------------------------------------------------------- save and load
\* pickle.dump of the tuple of the seven fields, in the order of save, and
\* the file it is written to
pickle_dump(self) ==
    <<self.data, self.classes, self.targets, self.dtype, self.description,
      self.num_features, self.feature_names>>
File(blob, state) == [exists |-> TRUE, blob |-> blob, state |-> state]

\* save: the file afterwards, or IOError when the path cannot be written
save(self, file, writable) ==
    IF writable
    THEN [tbl |-> self, exc |-> "ok", cause |-> "-", file |-> File(pickle_dump(self), "saved")]
    ELSE [tbl |-> self, exc |-> "IOError", cause |-> "unable to save", file |-> file]

\* mutant of load: dtype and description are unpacked in the other order
load_description_first(blob) ==
    IF validate(blob[1], blob[2], blob[3]) # "ok"
    THEN Raise(EmptyDataset, "ValueError", "validate")
    ELSE Ok([data |-> blob[1], targets |-> blob[3], classes |-> blob[2],
             num_features |-> blob[6], dtype |-> blob[5], description |-> blob[4],
             feature_names |-> blob[7]])

\* __load: pickle.load unpacks the tuple in the order of save, then
\* __validate on the three dicts; a failing load leaves no instance
load(blob) ==
    IF validate(blob[1], blob[2], blob[3]) # "ok"
    THEN Raise(EmptyDataset, "ValueError", "validate")
    ELSE Ok([data |-> blob[1], targets |-> blob[3], classes |-> blob[2],
             num_features |-> blob[6], dtype |-> blob[4], description |-> blob[5],
             feature_names |-> blob[7]])

\* __init__(filepath=...)
init_filepath(file) ==
    IF ~file.exists
    THEN Raise(EmptyDataset, "IOError", "file could not be read")
    ELSE load(file.blob)

DCall(op, arg, r) == [op |-> op, arg |-> arg, exc |-> r.exc, cause |-> r.cause]
\* The deriving methods leave the instance as it is, so a derivation called
\* after another one is the call made right after the last add_sample or
\* del_sample: the actions below are taken from there.
Prepared == [op |-> "prepare", arg |-> <<>>, exc |-> "ok", cause |-> "-"]

\* The source dataset of a derivation is prepared by add_sample and
\* del_sample calls; only the dataset they leave is kept.
\* feature vectors whose columns differ: v, v+1, ...
Ramp(k, v) == [i \in 1..k |-> v + i - 1]

Populate ==
    \E id \in Ids, k \in 0..MaxLen, v \in Vals, ow \in BOOLEAN :
    \E nm \in NameArgs(k) :
       /\ t' = add_sample(t, id, Ramp(k, v), Label(v)[1], Label(v)[2], ow, nm).tbl
       /\ prev' = t'
       /\ last' = Prepared
       /\ res' = NoRes
       /\ UNCHANGED <<base, args, right>>

Depopulate ==
    \E id \in Ids :
       /\ t' = del_sample(t, id).tbl
       /\ prev' = t'
       /\ last' = Prepared
       /\ res' = NoRes
       /\ UNCHANGED <<base, args, right>>

\* id lists a caller can ask for: ids of the dataset and an id it never holds
AbsentId == "s0"
IdLists == SeqsUpTo(Ids \cup {AbsentId}, Cardinality(Ids))

GetSubset ==
    \E ids \in IdLists :
       /\ last.op = "prepare"
       /\ res' = get_subset(t, ids)
       /\ prev' = t
       /\ last' = DCall("get_subset", ids, res')
       /\ UNCHANGED <<t, base, args, right>>

\* get_subset of what get_subset returned, by all its ids
Resubset ==
    /\ last.op = "get_subset"
    /\ res.exc \in {"ok", "warning"}
    /\ res' = get_subset(res.tbl, keys(res.tbl))
    /\ prev' = res.tbl
    /\ last' = DCall("resubset", keys(res.tbl), res')
    /\ UNCHANGED <<t, base, args, right>>

MaxIdx == 2

GetFeatureSubset ==
    LET Indices == (0 - MaxLen - 1)..MaxLen
        IdxLists ==
                    SeqsUpTo(Indices, MaxIdx)
    IN
    \E idx \in IdxLists :
       /\ last.op = "prepare"
       /\ res' = get_feature_subset(t, idx)
       /\ prev' = t
       /\ last' = DCall("get_feature_subset", idx, res')
       /\ UNCHANGED <<t, base, args, right>>

MatrixCall(ids) ==
    /\ last.op = "prepare"
    /\ res' = get_data_matrix_in_order(t, ids)
    /\ prev' = t
    /\ last' = DCall("get_data_matrix_in_order", ids, res')
    /\ UNCHANGED <<t, base, args, right>>

GetDataMatrixInOrder ==
    LET AsStr(x) == [kind |-> "str", v |-> x]
        StrArgs ==
                   {AsStr(x) : x \in Ids \cup {AbsentId, ""}}
        AsSet(x) == [kind |-> "set", v |-> x]
        SetArgs ==
                   {AsSet(x) : x \in SUBSET Ids}
        \* the subset_ids argument of get_data_matrix_in_order: a list, a set or a
        \* single string; its len() is below one for [], set() and ''
        AsList(x) == [kind |-> "list", v |-> x]
        ListArgs ==
                    {AsList(x) : x \in IdLists}
    IN
    \/ \E ids \in ListArgs : MatrixCall(ids)
    \/ \E ids \in SetArgs : MatrixCall(ids)
    \/ \E ids \in StrArgs : MatrixCall(ids)

Transform ==
    LET NotCallable == "not callable"
    IN
    \E func \in Funcs \cup {NotCallable} :
       /\ last.op = "prepare"
       /\ res' = transform(t, func)
       /\ prev' = t
       /\ last' = DCall("transform", func, res')
       /\ UNCHANGED <<t, base, args, right>>

InitDerive ==
    /\ t = EmptyDataset
    /\ prev = EmptyDataset
    /\ base = NoBase
    /\ last = Prepared
    /\ args = NoArgs
    /\ res = NoRes
    /\ right = EmptyDataset

NextDerive ==
    \/ Populate \/ Depopulate \/ GetSubset \/ Resubset \/ GetFeatureSubset
    \/ GetDataMatrixInOrder \/ Transform

SpecDerive == InitDerive /\ [][NextDerive]_vars

\* ------------------------------------------------------------ combination
\* self (t) and the right operand (right) are each built by add_sample and
\* del_sample from the empty dataset
PopulateSelf ==
    \E id \in Ids, k \in 1..MaxLen, v \in Vals :
    \E nm \in NameArgs(k) :
       /\ t' = add_sample(t, id, Ramp(k, v), Label(v)[1], Label(v)[2], FALSE, nm).tbl
       /\ prev' = t'
       /\ last' = Prepared
       /\ res' = NoRes
       /\ UNCHANGED <<base, args, right>>

DepopulateSelf ==
    \E id \in Ids :
       /\ t' = del_sample(t, id).tbl
       /\ prev' = t'
       /\ last' = Prepared
       /\ res' = NoRes
       /\ UNCHANGED <<base, args, right>>

PopulateOther ==
    \E id \in Ids \cup {AbsentId}, k \in 1..MaxLen, v \in Vals :
       /\ right' = add_sample(right, id, Ramp(k, v + k), Label(v)[1], Label(v)[2],
                              FALSE, NoneVal).tbl
       /\ prev' = t
       /\ last' = Prepared
       /\ res' = NoRes
       /\ UNCHANGED <<t, base, args>>

DepopulateOther ==
    \E id \in Ids \cup {AbsentId} :
       /\ right' = del_sample(right, id).tbl
       /\ prev' = t
       /\ last' = Prepared
       /\ res' = NoRes
       /\ UNCHANGED <<t, base, args>>

Add ==
    /\ res' = add(t, right)
    /\ prev' = t
    /\ last' = DCall("add", <<>>, res')
    /\ UNCHANGED <<t, base, args, right>>

Sub ==
    /\ last.op = "prepare"
    /\ res' = sub(t, right)
    /\ prev' = t
    /\ last' = DCall("sub", <<>>, res')
    /\ UNCHANGED <<t, base, args, right>>

NextCombine ==
    PopulateSelf \/ DepopulateSelf \/ PopulateOther \/ DepopulateOther \/ Add \/ Sub

SpecCombine == InitDerive /\ [][NextCombine]_vars

\* ----------------------------------------------------------------- split
\* datasets with up to four samplets in up to two classes
SplitIds == <<"s1", "s2", "s3", "s4">>
RECURSIVE BuildClasses(_, _, _)
BuildClasses(self, i, pick) ==
    IF i > Len(SplitIds) THEN self
    ELSE BuildClasses(
           IF pick[i] = "-" THEN self
           ELSE add_sample(self, SplitIds[i], Vector(1, 1), 1, pick[i], FALSE, NoneVal).tbl,
           i + 1, pick)

InitSplit ==
    LET SplitTables ==
            {BuildClasses(EmptyDataset, 1, pick) : pick \in [DOMAIN SplitIds -> {"-", "A", "B"}]}
    IN
    /\ t \in SplitTables
    /\ prev = t
    /\ base = NoBase
    /\ last = Prepared
    /\ args = NoArgs
    /\ res = NoRes
    /\ right = EmptyDataset

TrainTestSplitIds ==
    LET \* the draws of the branch that the arguments select; no draw when they
        \* select none
        Draws(self, train_perc, count_per_class) ==
            IF count_per_class.none /\ ~train_perc.none /\ InOpenUnit(train_perc.v)
            THEN random_subset_ids(self, train_perc.v)
            ELSE IF train_perc.none /\ ~count_per_class.none /\ count_per_class.v > 0
            THEN random_subset_ids_by_count(self, count_per_class.v)
            ELSE {{}}
        NoCount == [v |-> 0, none |-> TRUE]
        Counts ==
                  {NoCount} \cup {Some(c) : c \in 0..Len(SplitIds)}
        \* train_perc=None and count_per_class=None
        NoPerc == [v |-> <<0, 1>>, none |-> TRUE]
        Percs ==
                 {NoPerc} \cup {Some(p) : p \in {<<0, 1>>, <<1, 4>>, <<1, 2>>, <<3, 4>>,
                                                   <<1, 1>>, <<3, 2>>}}
    IN
    \E train_perc \in Percs, count_per_class \in Counts :
    \E drawn \in Draws(t, train_perc, count_per_class) :
       /\ last.op = "prepare"
       /\ res' = train_test_split_ids(t, train_perc, count_per_class, drawn)
       /\ prev' = t
       /\ last' = DCall("train_test_split_ids",
                        [train_perc |-> train_perc, count_per_class |-> count_per_class,
                         drawn |-> drawn], res')
       /\ UNCHANGED <<t, base, args, right>>

SpecSplit == InitSplit /\ [][TrainTestSplitIds]_vars

\* ================================================================ claims
IndexOf(d, k) == CHOOSE i \in DOMAIN d : d[i][1] = k
\* the entries of d other than k are those of e, with the same values and in
\* the same relative order
RestKept(d, e, k) ==
    /\ KeySet(d) = KeySet(e) \ {k}
    /\ \A x \in KeySet(d) : Get(d, x) = Get(e, x)
    /\ \A x, y \in KeySet(d) :
          IndexOf(d, x) < IndexOf(d, y) <=> IndexOf(e, x) < IndexOf(e, y)
SameMeta(a, b) ==
    /\ a.num_features = b.num_features
    /\ a.dtype = b.dtype
    /\ a.description = b.description
    /\ a.feature_names = b.feature_names
\* (key-set, contents)-equality of two datasets
MappingsEqual(a, b) ==
    /\ DictEq(a.data, b.data)
    /\ DictEq(a.targets, b.targets)
    /\ DictEq(a.classes, b.classes)

\* C1: after any sequence of add_sample (overwriting or not, succeeding or
\* failing), del_sample, __setitem__ and extend from the empty dataset, data,
\* targets and classes hold the same ids in the same insertion order.
C1_SameIdsSameOrder ==
    /\ keys_of(t.data) = keys_of(t.targets)
    /\ keys_of(t.targets) = keys_of(t.classes)

\* C1 witness: an add_sample that raised after storing its entry, on a
\* dataset now holding s2 before s1.
C1_Witness ==
    /\ last.op = "add" /\ last.cause = "names" /\ t # prev
    /\ keys_of(t.data) = <<"s2", "s1">>

\* C2 (as claimed): an add_sample that raises leaves the three mappings and
\* the metadata exactly as they were before the call.
C2_FailedAddChangesNothing ==
    (last.op = "add" /\ last.exc # "ok") => t = prev

\* C3: every stored vector has length num_features, and an add_sample or
\* __setitem__ on a non-empty dataset with a vector of another length raises
\* and stores nothing.
C3_VectorsHaveFeatureCount ==
    /\ \A i \in DOMAIN t.data : Len(t.data[i][2]) = t.num_features
    /\ (/\ last.op \in {"add", "setitem"}
        /\ num_samples(prev) > 0
        /\ last.nfeat # prev.num_features)
       => (last.exc \notin {"ok", "warning"} /\ t = prev)

\* C3 witness: add_sample with overwrite=True replaced the only samplet.
C3_Witness ==
    /\ last.op = "add" /\ last.overwrite /\ last.exc = "ok"
    /\ num_samples(prev) = 1 /\ Has(prev.data, last.id)
    /\ num_samples(t) = 1 /\ t.data # prev.data

\* C4 (as claimed): once a first samplet has been added (dtype is set by the
\* first insertion only), no add_sample or del_sample changes num_features.
C4_FeatureCountNeverChanges ==
    (last.op \in {"add", "del"} /\ prev.dtype # "None")
       => t.num_features = prev.num_features

\* C4 (amended): add_sample and del_sample leave num_features unchanged as
\* long as the dataset holds a samplet, and del_sample always does; a
\* successful add_sample into a dataset with no samplets (new, or emptied by
\* deletions) sets num_features to the length of the inserted vector.
C4_FeatureCountFixedWhileNonEmpty ==
    /\ (last.op \in {"add", "del"} /\ num_samples(prev) > 0)
          => t.num_features = prev.num_features
    /\ last.op = "del" => t.num_features = prev.num_features
    /\ (last.op = "add" /\ num_samples(prev) = 0)
          => t.num_features = IF last.exc = "ok" THEN last.nfeat
                              ELSE prev.num_features

\* C4 witness: a dataset emptied by deletions took a vector of another length.
C4_Witness ==
    /\ last.op = "add" /\ last.exc = "ok"
    /\ num_samples(prev) = 0 /\ prev.dtype # "None"
    /\ t.num_features # prev.num_features

\* C5 (as claimed): feature_names is None or has num_features entries.
C5_NamesMatchFeatureCount ==
    t.feature_names = NoneVal \/ Len(t.feature_names.v) = t.num_features

\* C6: add_sample of an id already present, without overwrite, raises the
\* duplicate error and changes nothing, whatever the vector and the names
\* are; add_sample of an absent id with a vector of num_features elements
\* (no feature_names given) succeeds and appends the id.
C6_DuplicateRejectedNewAccepted ==
    /\ (last.op = "add" /\ Has(prev.data, last.id) /\ ~last.overwrite)
          => (last.exc = "ValueError" /\ last.cause = "duplicate" /\ t = prev)
    /\ (/\ last.op = "add" /\ ~Has(prev.data, last.id)
        /\ num_samples(prev) > 0
        /\ last.nfeat = prev.num_features /\ ~last.named)
          => (/\ last.exc = "ok"
              /\ keys_of(t.data) = Append(keys_of(prev.data), last.id))

\* C6 witness: s1 re-added, without overwrite, to a dataset holding s1, s2.
C6_Witness ==
    /\ last.op = "add" /\ last.id = "s1" /\ ~last.overwrite
    /\ KeySet(prev.data) = {"s1", "s2"}
    /\ last.nfeat = prev.num_features
    /\ last.cause = "duplicate"

C8_AddThenDelRestores ==
    (base.some /\ base.exc = "ok") => MappingsEqual(t, base.v)

\* C8 (amended): add_sample of an id that was not present, followed by
\* del_sample of that id, leaves the ids and every id's features, target and
\* class as they were before the add_sample.
C8_AddNewThenDelRestores ==
    (base.some /\ ~Has(base.v.data, last.id)) => MappingsEqual(t, base.v)

\* C8 witness: a new id was added to a non-empty dataset and deleted again.
C8_Witness ==
    /\ base.some /\ base.exc = "ok" /\ ~Has(base.v.data, last.id)
    /\ last.op = "del" /\ last.exc = "ok"
    /\ num_samples(t) = 1

\* the sizes of the three dict arguments (None counted as absent)
ArgLens == {Len(args.data.v), Len(args.targets.v), Len(args.classes.v)}
AllGiven ==
    args.data # NoneVal /\ args.targets # NoneVal /\ args.classes # NoneVal

\* C9: construction from data, targets and classes raises whenever their
\* key sets differ, the vectors differ in length, or one of the dicts is
\* empty while another is not; when it succeeds, the three mappings of the
\* instance have one key set and every vector has num_features elements.
C9_BulkConstructionValidates ==
    last.op = "init" =>
      /\ (/\ AllGiven
          /\ \/ KeySet(args.data.v) # KeySet(args.targets.v)
             \/ KeySet(args.targets.v) # KeySet(args.classes.v)
             \/ \E i, j \in DOMAIN args.data.v :
                   Len(args.data.v[i][2]) # Len(args.data.v[j][2])
             \/ (0 \in ArgLens /\ ArgLens # {0}))
         => last.exc # "ok"
      /\ last.exc = "ok" =>
            /\ KeySet(t.data) = KeySet(t.targets)
            /\ KeySet(t.targets) = KeySet(t.classes)
            /\ \A i \in DOMAIN t.data : Len(t.data[i][2]) = t.num_features
            /\ AllGiven => /\ t.data = args.data.v
                           /\ t.targets = args.targets.v
                           /\ t.classes = args.classes.v

\* C9 witness: a two-samplet dataset built from dicts that list the same
\* ids in different orders.
C9_Witness ==
    /\ last.op = "init" /\ last.exc = "ok" /\ AllGiven
    /\ num_samples(t) = 2
    /\ keys_of(t.data) # keys_of(t.targets)

\* C10 (as claimed): an assignment through the data setter that succeeds
\* leaves data with the key set of targets and classes and with vectors of
\* num_features elements each; an assignment whose ids differ from the ids
\* held before is refused and changes nothing.
C10_DataSetterKeepsInvariants ==
    last.op = "set_data" =>
       IF last.exc = "ok"
       THEN /\ KeySet(t.data) = KeySet(prev.data)
            /\ KeySet(t.data) = KeySet(t.targets)
            /\ KeySet(t.data) = KeySet(t.classes)
            /\ \A i \in DOMAIN t.data : Len(t.data[i][2]) = t.num_features
       ELSE t = prev

\* what get_subset must return for the call recorded in last
SubsetAsClaimed ==
    LET want == Range(last.arg) \cap KeySet(prev.data) IN
    IF want = {}
    THEN res.exc = "warning" /\ num_samples(res.tbl) = 0
    ELSE /\ res.exc = "ok"
         /\ KeySet(res.tbl.data) = want
         /\ \A id \in want :
               /\ Get(res.tbl.data, id) = Get(prev.data, id)
               /\ Get(res.tbl.targets, id) = Get(prev.targets, id)
               /\ Get(res.tbl.classes, id) = Get(prev.classes, id)
         /\ keys_of(res.tbl.data) = keys_of(res.tbl.targets)
         /\ keys_of(res.tbl.targets) = keys_of(res.tbl.classes)
         /\ res.tbl.num_features = prev.num_features
         /\ res.tbl.feature_names = prev.feature_names

\* C11 (as claimed): get_subset(ids) returns a dataset holding exactly the
\* requested ids the source holds, each with the source's features, target
\* and class, the three mappings in one order, with the source's
\* num_features and feature_names; the empty dataset (and a warning) when
\* none of the ids exists; a partial miss is no error.
C11_GetSubsetReturnsRequested ==
    last.op = "get_subset" => SubsetAsClaimed

\* C12: get_subset(ids) followed by get_subset(all ids of the result) on the
\* result yields a dataset equal to the first result: same ids in the same
\* order with the same features, targets and classes, same num_features,
\* feature_names and dtype (and the empty dataset again when the first
\* result was empty).
C12_ResubsetIdempotent ==
    last.op = "resubset" =>
        /\ res.exc = (IF num_samples(prev) > 0 THEN "ok" ELSE "warning")
        /\ res.tbl.data = prev.data
        /\ res.tbl.targets = prev.targets
        /\ res.tbl.classes = prev.classes
        /\ res.tbl.num_features = prev.num_features
        /\ res.tbl.feature_names = prev.feature_names
        /\ res.tbl.dtype = prev.dtype
C12_Witness ==
    /\ last.op = "resubset"
    /\ res.exc = "ok"
    /\ num_samples(res.tbl) = 1
    /\ num_samples(t) = 2

\* every index of the recorded call satisfies 0 <= idx < num_features
AllInRange ==
    \A i \in DOMAIN last.arg : 0 <= last.arg[i] /\ last.arg[i] < prev.num_features

\* C13 (as claimed): get_feature_subset(indices) fails whenever some index
\* violates 0 <= idx < num_features, too large or negative, alone or mixed;
\* it returns a dataset only when every index is in range.
C13_OutOfRangeIndexFails ==
    (last.op = "get_feature_subset" /\ ~AllInRange) => res.exc # "ok"

\* C14 (as claimed): for in-range indices get_feature_subset returns a new
\* dataset with the source's ids, targets and classes, each vector being the
\* source's vector restricted to the given columns in the given order,
\* num_features the number of indices and feature_names the source's names
\* sliced by the same indices; the source is unchanged.
C14_FeatureSubsetResult ==
    (last.op = "get_feature_subset" /\ last.arg # <<>> /\ AllInRange) =>
        /\ res.exc = "ok"
        /\ res.tbl.targets = prev.targets
        /\ res.tbl.classes = prev.classes
        /\ keys_of(res.tbl.data) = keys_of(prev.data)
        /\ \A id \in KeySet(prev.data) :
              Get(res.tbl.data, id) = Take(Get(prev.data, id), last.arg)
        /\ res.tbl.num_features = Len(last.arg)
        /\ prev.feature_names # NoneVal
        /\ res.tbl.feature_names = Some(Take(prev.feature_names.v, last.arg))
        /\ t = prev

\* the recorded argument of get_data_matrix_in_order as a sequence of ids
ArgIds == IF last.arg.kind = "str" THEN <<last.arg.v>> ELSE last.arg.v
RowsFollowIds ==
    /\ Len(res.matrix) = Len(ArgIds)
    /\ \A i \in DOMAIN ArgIds : res.matrix[i] = Get(prev.data, ArgIds[i])
\* the ordered part of the claim: lists and single strings
MatrixOfOrderedIds ==
    (last.arg.kind # "set" /\ ~IsEmptyArg(last.arg)) =>
        IF \A i \in DOMAIN ArgIds : Has(prev.data, ArgIds[i])
        THEN res.exc = "ok" /\ RowsFollowIds
        ELSE res.exc \notin {"ok", "warning"}

\* C15 (as claimed): get_data_matrix_in_order(ids) returns one row per
\* element of ids, the i-th row being the vector of ids[i]; it fails if an id
\* is absent and whenever ids is a set; a single string is a one-row request.
C15_MatrixInOrderSetFails ==
    last.op = "get_data_matrix_in_order" =>
        /\ MatrixOfOrderedIds
        /\ (last.arg.kind = "set" => res.exc \notin {"ok", "warning"})

\* C15 (amended): as above, but ids of length zero (an empty list, the empty
\* string and also the empty set) gives a warning and the empty matrix; only
\* a set with at least one element fails.
C15_MatrixInOrderNonEmptySetFails ==
    last.op = "get_data_matrix_in_order" =>
        /\ MatrixOfOrderedIds
        /\ (IsEmptyArg(last.arg) => (res.exc = "warning" /\ res.matrix = <<>>))
        /\ (last.arg.kind = "set" /\ last.arg.v # {}) =>
               res.exc \notin {"ok", "warning"}
        /\ t = prev
C15_Witness ==
    /\ last.op = "get_data_matrix_in_order"
    /\ last.arg.kind = "list"
    /\ last.arg.v = <<"s2", "s1">>
    /\ keys(prev) = <<"s1", "s2">>
    /\ res.exc = "ok"
    /\ res.matrix[1] # res.matrix[2]

\* what func returns for the vectors of the dataset the call was applied to
Outputs == [i \in DOMAIN prev.data |-> Apply(last.arg, prev.data[i][2])]
FuncRaises == \E i \in DOMAIN Outputs : Outputs[i].exc # "ok"
UniformLengths ==
    \A i, j \in DOMAIN Outputs : Len(Outputs[i].v) = Len(Outputs[j].v)
TransformedAsClaimed ==
    /\ res.exc = "ok"
    /\ keys_of(res.tbl.data) = keys_of(prev.data)
    /\ res.tbl.targets = prev.targets
    /\ res.tbl.classes = prev.classes
    /\ \A i \in DOMAIN prev.data : res.tbl.data[i][2] = Outputs[i].v
    /\ t = prev

\* C16 (as claimed): transform(fn) returns a new dataset with the same ids
\* in the same order, the same target and class per id and fn's output for
\* each source vector as features, for every fn that returns vectors of one
\* length without raising; the source is unchanged.
C16_TransformAppliesFunc ==
    (last.op = "transform" /\ callable(last.arg) /\ ~FuncRaises /\ UniformLengths)
        => TransformedAsClaimed

\* C16 (amended): the same for every fn whose outputs are not empty; an empty
\* output makes transform fail.
C16_TransformAppliesFuncNonEmpty ==
    /\ (last.op = "transform" /\ callable(last.arg) /\ ~FuncRaises /\ UniformLengths
           /\ \A i \in DOMAIN Outputs : Outputs[i].v # <<>>)
        => TransformedAsClaimed
    /\ (last.op = "transform" /\ callable(last.arg) /\ ~FuncRaises
           /\ \E i \in DOMAIN Outputs : Outputs[i].v = <<>>)
        => (res.exc = "ValueError" /\ t = prev)
C16_Witness ==
    /\ last.op = "transform"
    /\ last.arg = "incr"
    /\ res.exc = "ok"
    /\ keys(res.tbl) = <<"s2", "s1">>
    /\ res.tbl.num_features = 2
    /\ res.tbl.data # prev.data

\* C17: when fn raises for some samplet, or its outputs differ in length,
\* transform raises, returns no dataset (not a partly filled one either) and
\* leaves the source as it was.
C17_TransformFailsAsAWhole ==
    (last.op = "transform" /\ callable(last.arg) /\ (FuncRaises \/ ~UniformLengths))
        => /\ res.exc \notin {"ok", "warning"}
           /\ res.tbl = EmptyDataset
           /\ t = prev
C17_Witness ==
    /\ last.op = "transform"
    /\ callable(last.arg)
    /\ ~FuncRaises
    /\ ~UniformLengths
    /\ res.exc = "ValueError"
C17_WitnessRaises ==
    /\ last.op = "transform"
    /\ callable(last.arg)
    /\ num_samples(prev) = 2
    /\ Outputs[1].exc = "ok"
    /\ Outputs[2].exc # "ok"
    /\ res.exc = "RuntimeError"

\* the operands of the recorded a + b: a is prev (= t), b is right
DisjointIds == KeySet(prev.data) \cap KeySet(right.data) = {}
IdenticalIds == KeySet(prev.data) = KeySet(right.data)
AddFails == res.exc \notin {"ok", "warning"} /\ res.tbl = EmptyDataset
EntriesFrom(d, e) == \A id \in KeySet(e) : Has(d, id) /\ Get(d, id) = Get(e, id)
UnionAsClaimed ==
    /\ res.exc = "ok"
    /\ KeySet(res.tbl.data) = KeySet(prev.data) \cup KeySet(right.data)
    /\ keys_of(res.tbl.data) = keys_of(res.tbl.targets)
    /\ keys_of(res.tbl.targets) = keys_of(res.tbl.classes)
    /\ EntriesFrom(res.tbl.data, prev.data) /\ EntriesFrom(res.tbl.data, right.data)
    /\ EntriesFrom(res.tbl.targets, prev.targets)
    /\ EntriesFrom(res.tbl.targets, right.targets)
    /\ EntriesFrom(res.tbl.classes, prev.classes)
    /\ EntriesFrom(res.tbl.classes, right.classes)
    /\ num_samples(res.tbl) = num_samples(prev) + num_samples(right)
    /\ res.tbl.num_features = prev.num_features

\* C18 (as claimed): for a and b with disjoint ids and equal num_features,
\* a + b is a new dataset holding the samplets of both, each with the
\* features, target and class of its operand, num_samples being the sum; with
\* disjoint ids and different num_features a + b fails.
C18_DisjointAddIsUnion ==
    (last.op = "add" /\ DisjointIds) =>
        IF prev.num_features = right.num_features
        THEN UnionAsClaimed
        ELSE AddFails

\* C18 (amended): the same when a holds at least one samplet; when a holds
\* none (ids disjoint, equal num_features), a + b fails.
C18_DisjointAddIsUnionOfNonEmpty ==
    (last.op = "add" /\ DisjointIds) =>
        IF prev.num_features = right.num_features /\ num_samples(prev) > 0
        THEN UnionAsClaimed /\ t = prev
        ELSE AddFails /\ t = prev
C18_Witness ==
    /\ last.op = "add"
    /\ DisjointIds
    /\ num_samples(prev) = 1
    /\ num_samples(right) = 2
    /\ res.exc = "ok"
    /\ num_samples(res.tbl) = 3
C18_WitnessDiffer ==
    /\ last.op = "add"
    /\ DisjointIds
    /\ num_samples(prev) > 0
    /\ num_samples(right) > 0
    /\ prev.num_features # right.num_features
    /\ res.exc = "ArithmeticError"

WiderAsClaimed ==
    /\ res.exc = "ok"
    /\ KeySet(res.tbl.data) = KeySet(prev.data)
    /\ \A id \in KeySet(prev.data) :
          /\ Get(res.tbl.data, id) = Get(prev.data, id) \o Get(right.data, id)
          /\ Get(res.tbl.classes, id) = Get(prev.classes, id)
    /\ res.tbl.num_features = prev.num_features + right.num_features
    /\ prev.feature_names # NoneVal /\ right.feature_names # NoneVal
    /\ res.tbl.feature_names = Some(prev.feature_names.v \o right.feature_names.v)

\* C19 (as claimed): for a and b with identical ids and the same class for
\* every id, whatever the order of the ids in either, a + b is one dataset
\* with these ids, each vector a's followed by b's, num_features the sum and
\* feature_names a's followed by b's; a + b fails when the classes of some
\* id disagree or when one of the two has zero features.
C19_IdenticalIdsAddIsWider ==
    (last.op = "add" /\ IdenticalIds) =>
        IF /\ DictEq(prev.classes, right.classes)
           /\ prev.num_features >= 1
           /\ right.num_features >= 1
        THEN WiderAsClaimed
        ELSE AddFails

\* C20: when the ids of a and b overlap partly (neither disjoint nor
\* identical), a + b raises ArithmeticError whatever the two num_features
\* are, returns no dataset and leaves both operands as they were.
C20_PartialOverlapFails ==
    (last.op = "add" /\ ~DisjointIds /\ ~IdenticalIds) =>
        /\ AddFails
        /\ res.exc = "ArithmeticError"
        /\ t = prev
C20_Witness ==
    /\ last.op = "add"
    /\ ~DisjointIds /\ ~IdenticalIds
    /\ num_samples(prev) = 2
    /\ num_samples(right) = 2
    /\ prev.num_features = right.num_features
    /\ res.exc = "ArithmeticError"

\* C21 (as claimed): an extend(other) that raises part-way (an id of other
\* already in self, or a vector of other of another length) leaves self as
\* it was before the call, with none of other's samplets added.
C21_FailedExtendChangesNothing ==
    (last.op = "extend" /\ last.exc # "ok") => t = prev

\* C22: a - b returns a new dataset holding exactly the samplets of a whose
\* ids are not in b, in a's order with a's features, targets and classes
\* (and a's other attributes); a and b stay as they were; without overlap the
\* result is a, and when every id of a is in b it is empty: both only warn.
C22_SubRemovesIdsOfOther ==
    last.op = "sub" =>
        LET kept(d) == SelectSeq(d, LAMBDA p : p[1] \notin KeySet(right.data)) IN
        /\ res.exc \in {"ok", "warning"}
        /\ res.tbl.data = kept(prev.data)
        /\ res.tbl.targets = kept(prev.targets)
        /\ res.tbl.classes = kept(prev.classes)
        /\ SameMeta(res.tbl, prev)
        /\ (DisjointIds => (res.tbl = prev /\ res.exc = "warning"))
        /\ (KeySet(prev.data) \subseteq KeySet(right.data) =>
               (num_samples(res.tbl) = 0 /\ res.exc = "warning"))
        /\ t = prev
C22_Witness ==
    /\ last.op = "sub"
    /\ num_samples(prev) = 2
    /\ num_samples(right) = 2
    /\ num_samples(res.tbl) = 1
    /\ res.exc = "ok"
C22_WitnessAll ==
    /\ last.op = "sub"
    /\ num_samples(prev) = 2
    /\ num_samples(res.tbl) = 0
    /\ res.exc = "warning"

\* ------------------------------------------------- comparing two datasets
\* Two datasets are built by add_sample calls and then compared.  The left
\* one has target 0 throughout and neither description nor feature names of
\* its own; the right one may have target 1, a description and names.
Classes == {"A", "B"}

RECURSIVE BuildSamplets(_, _, _, _, _, _)
BuildSamplets(self, ids, n, val, cls, target) ==
    IF ids = <<>> THEN self
    ELSE BuildSamplets(add_sample(self, Head(ids), Vector(n, val[Head(ids)]), target,
                                  cls[Head(ids)], FALSE, NoneVal).tbl,
                       Tail(ids), n, val, cls, target)

LeftTables ==
    {BuildSamplets(EmptyDataset, ids, n, val, cls, 0) :
        ids \in IdSeqs, n \in 1..MaxLen, val \in [Ids -> Vals], cls \in [Ids -> Classes]}
RightTables ==
    LET Described(self) ==
            IF num_samples(self) = 0 THEN self
            ELSE set_feature_names(set_description(self, "d").tbl,
                                   Some(alt_names(self.num_features))).tbl
    IN
    LeftTables \cup
    {Described(BuildSamplets(EmptyDataset, ids, n, val, cls, 1)) :
        ids \in IdSeqs, n \in 1..MaxLen, val \in [Ids -> Vals], cls \in [Ids -> Classes]}

InitCompare ==
    /\ t \in LeftTables
    /\ right \in RightTables
    /\ prev = t
    /\ base = NoBase
    /\ last = Prepared
    /\ args = NoArgs
    /\ res = NoRes

Eq ==
    \E elementwise_raises \in BOOLEAN :
       /\ last.op = "prepare"
       /\ res' = eq(t, right, elementwise_raises)
       /\ prev' = t
       /\ last' = DCall("eq", <<>>, res')
       /\ UNCHANGED <<t, base, args, right>>

Compatible ==
    /\ last.op = "prepare"
    /\ res' = compatible(t, right)
    /\ prev' = t
    /\ last' = DCall("compatible", <<>>, res')
    /\ UNCHANGED <<t, base, args, right>>

NextCompare == Eq \/ Compatible

SpecCompare == InitCompare /\ [][NextCompare]_vars

\* check_compatibility on lists made of two datasets
InitCheck ==
    /\ t \in Others
    /\ right \in Others
    /\ prev = t
    /\ base = NoBase
    /\ last = Prepared
    /\ args = NoArgs
    /\ res = NoRes

CheckCompatibility ==
    LET DatasetLists == {<<>>, <<t>>, <<t, right>>, <<t, right, t>>}
        ReqdList(l) == [kind |-> "list", v |-> l]
        ReqdInt(n) == [kind |-> "int", v |-> <<n>>]
        Reqds ==
                 {NoReqd} \cup {ReqdInt(n) : n \in 1..MaxLen}
                    \cup {ReqdList(l) : l \in SeqsUpTo(1..MaxLen, 2)}
    IN
    \E datasets \in DatasetLists, reqd_num_features \in Reqds :
       /\ last.op = "prepare"
       /\ res' = check_compatibility(datasets, reqd_num_features)
       /\ prev' = t
       /\ last' = DCall("check_compatibility",
                        [datasets |-> datasets, reqd_num_features |-> reqd_num_features],
                        res')
       /\ UNCHANGED <<t, base, args, right>>

SpecCheck == InitCheck /\ [][CheckCompatibility]_vars

\* ------------------------------------------------------------ persistence
\* A dataset built by add_sample calls is saved; the file may then be
\* altered outside the program before a new instance (right) is loaded.

Changed(blob, change) ==
    LET Longer(d) == [i \in DOMAIN d |-> IF i = 1 THEN <<d[i][1], d[i][2] \o <<0>>>> ELSE d[i]]
        Rekey(d, k) == [i \in DOMAIN d |-> IF i = 1 THEN <<k, d[i][2]>> ELSE d[i]]
        Reverse(d) == [i \in DOMAIN d |-> d[Len(d) + 1 - i]]
    IN
    CASE change = "classes order" -> [blob EXCEPT ![2] = Reverse(@)]
      [] change = "targets key" -> [blob EXCEPT ![3] = Rekey(@, AbsentId)]
      [] change = "classes dropped" -> [blob EXCEPT ![2] = <<>>]
      [] change = "vector length" -> [blob EXCEPT ![1] = Longer(@)]
      [] change = "num_features" -> [blob EXCEPT ![6] = @ + 1]
      [] change = "dtype" -> [blob EXCEPT ![4] = "list"]
      [] change = "feature_names" -> [blob EXCEPT ![7] = Some(@.v \o <<"x">>)]

InitPersist ==
    LET NoFile == [exists |-> FALSE, blob |-> pickle_dump(EmptyDataset), state |-> "none"]
    IN
    /\ t \in RightTables
    /\ right = EmptyDataset
    /\ prev = t
    /\ base = NoBase
    /\ last = Prepared
    /\ args = NoFile
    /\ res = NoRes

Save ==
    \E writable \in BOOLEAN :
       /\ last.op = "prepare"
       /\ LET r == save(t, args, writable) IN
             /\ args' = r.file
             /\ res' = Raise(r.tbl, r.exc, r.cause)
       /\ prev' = t
       /\ last' = DCall("save", <<>>, res')
       /\ UNCHANGED <<t, base, right>>

ChangeFile ==
    LET BlobChanges ==
            {"classes order", "targets key", "classes dropped", "vector length",
             "num_features", "dtype", "feature_names"}
    IN
    \E change \in BlobChanges :
       /\ last.op = "save" /\ args.exists
       /\ args' = File(Changed(args.blob, change), change)
       /\ last' = DCall("change", <<>>, Ok(t))
       /\ UNCHANGED <<t, prev, base, res, right>>

Load ==
    /\ last.op \in {"save", "change"}
    /\ res' = init_filepath(args)
    /\ right' = res'.tbl
    /\ last' = DCall("load", <<>>, res')
    /\ UNCHANGED <<t, prev, base, args>>

NextPersist == Save \/ ChangeFile \/ Load

SpecPersist == InitPersist /\ [][NextPersist]_vars

\* ------------------------------------------------------ copy construction
\* A dataset built by add_sample calls, which del_sample calls may empty
\* again, is the source of a copy (right).
Copy ==
    /\ last.op = "prepare"
    /\ res' = copy_init(t)
    /\ right' = res'.tbl
    /\ prev' = t
    /\ last' = DCall("copy", <<>>, res')
    /\ UNCHANGED <<t, base, args>>

InitCopy ==
    /\ t \in RightTables
    /\ right = EmptyDataset
    /\ prev = t
    /\ base = NoBase
    /\ last = Prepared
    /\ args = NoArgs
    /\ res = NoRes

NextCopy == Depopulate \/ Copy

SpecCopy == InitCopy /\ [][NextCopy]_vars

\* ------------------------------------------------------- element types
\* Vectors of integers (elements 0, 1) and of floats: an element 10 + n
\* stands for the float n + 0.5.  np.asarray gives an array whose element
\* type is float64 as soon as one element is a float, int64 otherwise; the
\* type() of the array is ndarray in both cases.
FloatVals == {10, 11}
element_type(features) ==
    IF \E i \in DOMAIN features : features[i] \in FloatVals
    THEN "float64" ELSE "int64"

InitTyped ==
    /\ t = EmptyDataset
    /\ prev = EmptyDataset
    /\ base = NoBase
    /\ last = Prepared
    /\ args = NoArgs
    /\ res = NoRes
    /\ right = EmptyDataset

AddTyped ==
    \E id \in Ids, k \in 0..MaxLen, v \in Vals \cup FloatVals, ow \in BOOLEAN :
       /\ res' = add_sample(t, id, Vector(k, v), Label(1)[1], Label(1)[2], ow, NoneVal)
       /\ t' = res'.tbl
       /\ prev' = t
       /\ last' = DCall("add_sample",
                        [id |-> id, features |-> Vector(k, v), overwrite |-> ow], res')
       /\ UNCHANGED <<base, args, right>>

DelTyped ==
    \E id \in Ids :
       /\ res' = del_sample(t, id)
       /\ t' = res'.tbl
       /\ prev' = t
       /\ last' = DCall("del_sample", [id |-> id, features |-> <<>>, overwrite |-> FALSE],
                        res')
       /\ UNCHANGED <<base, args, right>>

NextTyped == AddTyped \/ DelTyped

SpecTyped == InitTyped /\ [][NextTyped]_vars

\* ------------------------------------------- targets and classes setters
\* the targets setter (dataset.targets = values); values is a dict, or None
\* standing for any other object
set_targets(self, values) ==
    IF values.none
    THEN Raise(self, "ValueError", "targets input must be a dictionary")
    ELSE IF Len(self.data) # Len(values.v)
    THEN Raise(self, "ValueError", "count")
    ELSE IF KeySet(self.data) # KeySet(values.v)
    THEN Raise(self, "ValueError", "ids")
    ELSE Ok([self EXCEPT !.targets = values.v])

\* the classes setter (dataset.classes = values)
set_classes(self, values) ==
    IF values.none
    THEN Raise(self, "ValueError", "classes input must be a dictionary")
    ELSE IF Len(self.data) # Len(values.v)
    THEN Raise(self, "ValueError", "count")
    ELSE IF KeySet(self.data) # KeySet(values.v)
    THEN Raise(self, "ValueError", "ids")
    ELSE Ok([self EXCEPT !.classes = values.v])

\* A dataset is constructed from three dicts, then targets or classes are
\* assigned.
TargetDicts == OrNone(DictsOver({Label(v)[1] : v \in Vals}))
ClassDicts == OrNone(DictsOver({"0", "A"}))

InitOrder ==
    LET OrderArgs ==
            [data : {Some(d) : d \in DictsOver({Vector(MaxLen, 1)})},
             targets : TargetDicts \ {NoneVal},
             classes : ClassDicts \ {NoneVal},
             feature_names : {NoneVal}]
    IN
    /\ args \in OrderArgs
    /\ t = EmptyDataset
    /\ prev = EmptyDataset
    /\ base = NoBase
    /\ last = Call("none", "-", 0, FALSE, NoneVal, Ok(EmptyDataset))
    /\ res = NoRes
    /\ right = EmptyDataset

SetTargets ==
    \E values \in TargetDicts :
       LET r == set_targets(t, values) IN
       /\ last.op = "init" /\ last.exc = "ok"
       /\ t' = r.tbl
       /\ prev' = t
       /\ last' = Call("set_targets", "-", 0, FALSE, NoneVal, r)
       /\ UNCHANGED <<base, args, res, right>>

SetClasses ==
    \E values \in ClassDicts :
       LET r == set_classes(t, values) IN
       /\ last.op = "init" /\ last.exc = "ok"
       /\ t' = r.tbl
       /\ prev' = t
       /\ last' = Call("set_classes", "-", 0, FALSE, NoneVal, r)
       /\ UNCHANGED <<base, args, res, right>>

NextOrder == Construct \/ SetTargets \/ SetClasses

SpecOrder == InitOrder /\ [][NextOrder]_vars

\* ---------------------------------------------------- (a + b) - b
\* Two datasets built by add_sample calls: a over the ids s1, s2 (it may
\* have a description and feature names of its own), b over s2, s3.  a + b
\* is computed, then b is subtracted from the sum.

InitSum ==
    LET OtherIds == {"s2", "s3"}
        OtherIdSeqs == {ids \in SeqsUpTo(OtherIds, Cardinality(OtherIds)) :
                          \A i, j \in DOMAIN ids : i # j => ids[i] # ids[j]}
        OtherTables ==
            {BuildSamplets(EmptyDataset, ids, n, val, cls, 1) :
                ids \in OtherIdSeqs, n \in 1..MaxLen,
                val \in [OtherIds -> Vals], cls \in [OtherIds -> {"B"}]}
    IN
    /\ t \in RightTables
    /\ right \in OtherTables
    /\ prev = t
    /\ base = NoBase
    /\ last = Prepared
    /\ args = NoArgs
    /\ res = NoRes

Sum ==
    /\ last.op = "prepare"
    /\ res' = add(t, right)
    /\ prev' = t
    /\ last' = DCall("add", <<>>, res')
    /\ UNCHANGED <<t, base, args, right>>

SubFromSum ==
    /\ last.op = "add" /\ res.exc = "ok"
    /\ res' = sub(res.tbl, right)
    /\ prev' = t
    /\ last' = DCall("sub of sum", <<>>, res')
    /\ UNCHANGED <<t, base, args, right>>

NextSum == Sum \/ SubFromSum

SpecSum == InitSum /\ [][NextSum]_vars

\* ------------------------------------------- instances and their dicts
\* Here an instance holds references to its three dict objects, which live
\* in a heap (held in args): data, targets and classes of an instance are
\* positions in the heap.  add_sample, del_sample and __setitem__ change the
\* dict objects of their instance in place and rebind its other attributes;
\* none of them changes an array in place, so arrays are kept as values.
Instance(self, data, targets, classes) ==
    [self EXCEPT !.data = data, !.targets = targets, !.classes = classes]
\* the dataset an instance amounts to: its dicts read from the heap
Value(heap, inst) ==
    Instance(inst, heap[inst.data], heap[inst.targets], heap[inst.classes])

\* mutant of derive: the new instance keeps the classes dict of its parent
derive_sharing_classes(heap, parent, self) ==
    [heap |-> heap \o <<self.data, self.targets>>,
     inst |-> Instance(self, Len(heap) + 1, Len(heap) + 2, parent.classes)]
\* an instance returned by a derivation from parent, amounting to self: its
\* three dicts are new objects (OrderedDict() and OrderedDict(data) in
\* __init__, copy.deepcopy in __copy and __sub__)
derive(heap, parent, self) ==
    [heap |-> heap \o <<self.data, self.targets, self.classes>>,
     inst |-> Instance(self, Len(heap) + 1, Len(heap) + 2, Len(heap) + 3)]

\* a (in t) and b (in right) are built by add_sample calls; one derivation
\* gives d (in base); then a, b and d are changed by add_sample, del_sample
\* and __setitem__ calls.  prev holds what a, b and d amounted to before the
\* last call.
MaxMutations == 2
Snapshot(heap, a, b, d) ==
    [a |-> Value(heap, a), b |-> Value(heap, b), d |-> Value(heap, d.v)]

InitAlias ==
    LET \* a new instance amounting to self, with dict objects of its own
        \* (OrderedDict() in __init__, filled by add_sample)
        construct(heap, self) ==
            [heap |-> heap \o <<self.data, self.targets, self.classes>>,
             inst |-> Instance(self, Len(heap) + 1, Len(heap) + 2, Len(heap) + 3)]
        NoDerived == [some |-> FALSE, v |-> Instance(EmptyDataset, 1, 2, 3), exc |-> "-"]
        AliasOthers ==
            {BuildOnes(EmptyDataset, s, n) : s \in {<<"s1">>, <<AbsentId>>}, n \in 1..MaxLen}
        AliasTables ==
            {BuildOnes(EmptyDataset, s, n) : s \in {<<"s1">>, <<"s1", "s2">>}, n \in 1..MaxLen}
    IN
    \E a \in AliasTables, b \in AliasOthers :
       LET first == construct(<<>>, a)
           second == construct(first.heap, b)
       IN /\ args = second.heap
          /\ t = first.inst
          /\ right = second.inst
          /\ base = NoDerived
          /\ prev = Snapshot(args, t, right, base)
          /\ last = [op |-> "prepare", arg |-> [on |-> "-", n |-> 0],
                     exc |-> "ok", cause |-> "-"]
          /\ res = NoRes

\* a derivation whose outcome is r: when it returns, d is a new instance
Derived(kind, r) ==
    /\ last.op = "prepare"
    /\ res' = r
    /\ LET made == derive(args, t, r.tbl) IN
       IF r.exc \in {"ok", "warning"}
       THEN /\ args' = made.heap
            /\ base' = [some |-> TRUE, v |-> made.inst, exc |-> kind]
       ELSE UNCHANGED <<args, base>>
    /\ prev' = Snapshot(args', t, right, base')
    /\ last' = [op |-> kind, arg |-> [on |-> "-", n |-> 0],
                exc |-> r.exc, cause |-> r.cause]
    /\ UNCHANGED <<t, right>>

Derive ==
    LET a == Value(args, t)
        b == Value(args, right)
    IN \/ Derived("copy", copy_init(a))
       \/ \E ids \in {<<"s1">>, <<"s2", "s1">>, <<AbsentId>>} :
             Derived("get_subset", get_subset(a, ids))
       \/ \E idx \in {<<0>>, <<MaxLen - 1, 0>>} :
             Derived("get_feature_subset", get_feature_subset(a, idx))
       \/ \E func \in {"identity", "first"} :
             Derived("transform", transform(a, func))
       \/ Derived("add", add(a, b))
       \/ Derived("sub", sub(a, b))

\* a call on the instance named on, whose outcome on its dataset is r
Mutated(op, on, r) ==
    LET \* an in-place change of an instance that makes it amount to self
        Store(heap, inst, self) ==
            [heap |-> [heap EXCEPT ![inst.data] = self.data,
                                   ![inst.targets] = self.targets,
                                   ![inst.classes] = self.classes],
             inst |-> Instance(self, inst.data, inst.targets, inst.classes)]
    IN
    LET inst == CASE on = "a" -> t [] on = "b" -> right [] on = "d" -> base.v
        stored == Store(args, inst, r.tbl)
    IN /\ prev' = Snapshot(args, t, right, base)
       /\ args' = stored.heap
       /\ t' = IF on = "a" THEN stored.inst ELSE t
       /\ right' = IF on = "b" THEN stored.inst ELSE right
       /\ base' = IF on = "d" THEN [base EXCEPT !.v = stored.inst] ELSE base
       /\ res' = Raise(EmptyDataset, r.exc, r.cause)
       /\ last' = [op |-> op, arg |-> [on |-> on, n |-> last.arg.n + 1],
                   exc |-> r.exc, cause |-> r.cause]

Mutate ==
    /\ base.some
    /\ last.arg.n < MaxMutations
    /\ \E on \in {"a", "b", "d"} :
       LET self == Value(args, CASE on = "a" -> t [] on = "b" -> right [] on = "d" -> base.v)
       IN \/ \E id \in Ids, k \in 1..MaxLen :
               Mutated("add_sample", on,
                       add_sample(self, id, Vector(k, 0), 0, "B", TRUE, NoneVal))
          \/ \E id \in Ids : Mutated("del_sample", on, del_sample(self, id))
          \/ \E id \in Ids, k \in 1..MaxLen :
               Mutated("setitem", on, setitem(self, id, Vector(k, 0)))

NextAlias == Derive \/ Mutate

SpecAlias == InitAlias /\ [][NextAlias]_vars

\* ---- train_test_split_ids ----
smallest_class_size(self) ==
    CHOOSE n \in {class_sizes(self)[c] : c \in class_set(self)} :
        \A c \in class_set(self) : n <= class_sizes(self)[c]
BothGiven(a) == ~a.train_perc.none /\ ~a.count_per_class.none
NeitherGiven(a) == a.train_perc.none /\ a.count_per_class.none
FractionTooLow(self, a) ==
    /\ a.count_per_class.none /\ ~a.train_perc.none
    /\ BelowOneOver(a.train_perc.v, smallest_class_size(self))
CountTooHigh(self, a) ==
    /\ a.train_perc.none /\ ~a.count_per_class.none
    /\ a.count_per_class.v >= smallest_class_size(self)
OneInRange(self, a) ==
    \/ /\ a.count_per_class.none /\ ~a.train_perc.none
       /\ InOpenUnit(a.train_perc.v)
       /\ ~BelowOneOver(a.train_perc.v, smallest_class_size(self))
    \/ /\ a.train_perc.none /\ ~a.count_per_class.none
       /\ a.count_per_class.v > 0
       /\ a.count_per_class.v < smallest_class_size(self)
Proceeds == res.cause \in {"-", "empty training or test set"}

\* C23: on a table with samplets, train_test_split_ids rejects its arguments
\* with a validation error (ValueError) and returns no lists when both a
\* fraction and a count are given, when neither is given, when the fraction is
\* below 1 / (smallest class size) and when the count is at least the smallest
\* class size; it goes on to the draw only with exactly one in-range argument.
C23_SplitRejectsBadArguments ==
    (last.op = "train_test_split_ids" /\ num_samples(prev) > 0) =>
        /\ (\/ BothGiven(last.arg) \/ NeitherGiven(last.arg)
            \/ FractionTooLow(prev, last.arg) \/ CountTooHigh(prev, last.arg))
           => (res.exc = "ValueError" /\ ~Proceeds /\ res.train = {} /\ res.test = {})
        /\ (Proceeds => OneInRange(prev, last.arg))

\* C24: whenever train_test_split_ids returns, whatever the per-class draw
\* selected, the train and test lists are disjoint, their union is the id set
\* of the table and neither is empty; when the arguments are accepted and the
\* draw leaves a side empty, the call fails and returns no lists.
C24_SplitListsPartitionIds ==
    last.op = "train_test_split_ids" =>
        /\ (res.exc = "ok" =>
               /\ res.train \cap res.test = {}
               /\ res.train \cup res.test = KeySet(prev.data)
               /\ res.train # {} /\ res.test # {}
               /\ res.train = last.arg.drawn)
        /\ ((/\ num_samples(prev) > 0 /\ OneInRange(prev, last.arg)
             /\ (\/ last.arg.drawn = {}
                 \/ KeySet(prev.data) \ last.arg.drawn = {}))
            => (res.exc = "ValueError" /\ res.train = {} /\ res.test = {}))
C24_Witness ==
    /\ last.op = "train_test_split_ids" /\ res.exc = "ok"
    /\ Cardinality(class_set(prev)) = 2
    /\ Cardinality(res.train) = 2 /\ Cardinality(res.test) = 2
C24_WitnessEmptySide ==
    /\ last.op = "train_test_split_ids" /\ num_samples(prev) > 0
    /\ OneInRange(prev, last.arg)
    /\ KeySet(prev.data) \ last.arg.drawn = {}
    /\ res.exc = "ValueError"

\* ---- __eq__, compatible, check_compatibility ----
SameIdSet(a, b) == KeySet(a.data) = KeySet(b.data)
SameClassPerId(a, b) ==
    \A k \in KeySet(a.data) \cap KeySet(b.data) : Get(a.classes, k) = Get(b.classes, k)
IdenticalVectors(a, b) ==
    \A k \in KeySet(a.data) \cap KeySet(b.data) : Get(a.data, k) = Get(b.data, k)

\* C25: a == b returns True if and only if a and b have the same id set, the
\* same class for every id and identical feature vectors for every id,
\* whatever the insertion order, targets, description and feature names;
\* tables whose vectors differ in length are never equal.
C25_EqualIffSameIdsClassesVectors ==
    last.op = "eq" =>
        /\ res.exc = "ok"
        /\ res.value = (/\ SameIdSet(t, right) /\ SameClassPerId(t, right)
                        /\ IdenticalVectors(t, right))
        /\ ((num_samples(t) > 0 /\ t.num_features # right.num_features) => ~res.value)

\* C26: a.compatible(b) returns a boolean that is true exactly when a and b
\* have the same id set and the same class for every id, whatever the
\* features, their number and the insertion order.
C26_CompatibleIffSameIdsClasses ==
    last.op = "compatible" =>
        /\ res.exc = "ok"
        /\ res.value = (SameIdSet(t, right) /\ SameClassPerId(t, right))

\* C27: check_compatibility of a list of at least one table and a required
\* feature count never raises; it returns one flag per table after the first
\* (that table against the first), an aggregate flag that is their
\* conjunction, and a dimensionality flag that is true exactly when some
\* table's num_features differs from its required count.
C27_CheckCompatibilityFlags ==
    (last.op = "check_compatibility" /\ Len(last.arg.datasets) > 0) =>
        LET datasets == last.arg.datasets
            reqd == last.arg.reqd_num_features
        IN /\ res.exc = "ok"
           /\ Len(res.compatible) = Len(datasets) - 1
           /\ \A i \in DOMAIN res.compatible :
                 res.compatible[i] = (/\ SameIdSet(datasets[1], datasets[i + 1])
                                      /\ SameClassPerId(datasets[1], datasets[i + 1]))
           /\ res.value = (\A i \in DOMAIN res.compatible : res.compatible[i])
           /\ res.dim_mismatch =
                 (\E i \in DOMAIN datasets :
                     \/ reqd.kind = "int" /\ datasets[i].num_features # reqd.v[1]
                     \/ /\ reqd.kind = "list" /\ i \in DOMAIN reqd.v
                        /\ datasets[i].num_features # reqd.v[i])

\* ---- save, load ----
\* C28: loading the file that save wrote for a table with samplets gives a
\* table that compares equal to the original (ids, classes, vectors) and has
\* the original's targets, dtype, description, num_features and
\* feature_names, in the original's insertion order.
C28_SaveLoadRoundTrip ==
    (last.op = "load" /\ args.state = "saved" /\ num_samples(t) > 0) =>
        /\ res.exc = "ok"
        /\ eq(t, right, TRUE) = Bool(TRUE)
        /\ right.targets = t.targets
        /\ right.dtype = t.dtype
        /\ right.description = t.description
        /\ right.num_features = t.num_features
        /\ right.feature_names = t.feature_names
        /\ right = t
C28_Witness ==
    /\ last.op = "load" /\ args.state = "saved"
    /\ num_samples(t) = 2 /\ t.description = "d"
    /\ Get(t.classes, "s1") # Get(t.classes, "s2")
    /\ res.exc = "ok" /\ num_samples(right) = 2

\* the five invariants, on the fields of a blob
BlobValid(blob) ==
    /\ keys_of(blob[1]) = keys_of(blob[2]) /\ keys_of(blob[1]) = keys_of(blob[3])
    /\ \A i \in DOMAIN blob[1] : Len(blob[1][i][2]) = blob[6]
    /\ (blob[1] # <<>> => blob[4] = TypeOf(blob[1][1][2]))
    /\ (blob[7].none \/ Len(blob[7].v) = blob[6])

\* C29: loading a file whose fields violate an invariant (key sets or
\* insertion order differing across the three mappings, a vector whose length
\* differs from the stored num_features, a dtype other than the vectors',
\* feature_names of another length than num_features) fails and gives no table.
C29_LoadRevalidatesInvariants ==
    (last.op = "load" /\ args.exists /\ ~BlobValid(args.blob)) =>
        (res.exc # "ok" /\ right = EmptyDataset)

\* ---- copy construction ----
\* C30: copy construction from a table with samplets gives a table with the
\* source's features, targets, classes, feature names, dtype, description and
\* num_features; from a source without samplets (never filled, or emptied by
\* deletions) it fails with ValueError and gives no table.
C30_CopyConstruction ==
    last.op = "copy" =>
        IF num_samples(t) > 0
        THEN /\ res.exc = "ok"
             /\ right.data = t.data
             /\ right.targets = t.targets
             /\ right.classes = t.classes
             /\ right.feature_names = t.feature_names
             /\ right.dtype = t.dtype
             /\ right.description = t.description
             /\ right.num_features = t.num_features
        ELSE res.exc = "ValueError" /\ right = EmptyDataset
C30_Witness ==
    /\ last.op = "copy" /\ res.exc = "ok"
    /\ num_samples(right) = 2 /\ right.description = "d"
C30_WitnessEmptied ==
    /\ last.op = "copy" /\ res.exc = "ValueError"
    /\ num_samples(t) = 0 /\ t.num_features > 0
C30_WitnessNeverFilled ==
    /\ last.op = "copy" /\ res.exc = "ValueError"
    /\ t = EmptyDataset

\* ---- __setitem__ ----
\* C35: dataset[id] = features on a present id with a vector of num_features
\* elements replaces that samplet's vector only: its target and class, every
\* other samplet, the id order, num_features and the other metadata stay; on
\* an absent id it raises KeyError, on a vector of another length it raises,
\* and the dataset is unchanged in both failing cases.
C35_SetItemReplacesOneVector ==
    last.op = "setitem" =>
        IF ~Has(prev.data, last.id)
        THEN last.exc = "KeyError" /\ t = prev
        ELSE IF last.nfeat # prev.num_features
        THEN last.exc = "ValueError" /\ t = prev
        ELSE /\ last.exc = "ok"
             /\ keys_of(t.data) = keys_of(prev.data)
             /\ Len(Get(t.data, last.id)) = last.nfeat
             /\ \A k \in KeySet(prev.data) \ {last.id} :
                   Get(t.data, k) = Get(prev.data, k)
             /\ t.targets = prev.targets
             /\ t.classes = prev.classes
             /\ SameMeta(t, prev)
C35_Witness ==
    /\ last.op = "setitem" /\ last.exc = "ok"
    /\ num_samples(prev) = 2
    /\ Get(t.data, last.id) # Get(prev.data, last.id)
C35_WitnessAbsent ==
    /\ last.op = "setitem" /\ last.exc = "KeyError"
    /\ num_samples(prev) = 1 /\ last.nfeat = prev.num_features
C35_WitnessLength ==
    /\ last.op = "setitem" /\ last.exc = "ValueError"
    /\ Has(prev.data, last.id) /\ last.nfeat > prev.num_features

\* ---- first insertion ----
\* C33: a successful add_sample into a dataset without samplets sets
\* num_features to the length of the inserted vector and feature_names to the
\* names passed to that call, or to the defaults f0, f1, ... when none are
\* passed.
C33_FirstInsertionFixesCountAndNames ==
    (last.op = "add" /\ last.exc = "ok" /\ num_samples(prev) = 0) =>
        /\ t.num_features = last.nfeat
        /\ t.feature_names = IF last.named THEN Some(alt_names(last.nfeat))
                                           ELSE Some(str_names(last.nfeat))

\* ---- element types ----
ElementTypes(self) == {element_type(self.data[i][2]) : i \in DOMAIN self.data}

\* C32: add_sample of a new id, with a vector of num_features elements, into
\* a dataset with samplets raises TypeError and stores nothing when the
\* element type of the vector differs from the element type of the stored
\* vectors (a float vector into a dataset of integer vectors); the vectors of
\* a dataset all have the element type of the first one, and dtype does not
\* change while the dataset has samplets.
C32_ElementTypeMismatchFails ==
    /\ Cardinality(ElementTypes(t)) <= 1
    /\ (last.op = "add_sample" /\ num_samples(prev) > 0) =>
          /\ t.dtype = prev.dtype
          /\ (/\ ~Has(prev.data, last.arg.id)
              /\ Len(last.arg.features) = prev.num_features
              /\ element_type(last.arg.features) \notin ElementTypes(prev))
             => (last.exc = "TypeError" /\ t = prev)

\* ---- order of the three mappings ----
\* C34: after a successful construction from data, targets and classes, and
\* after a successful assignment through the targets or classes setter, data,
\* targets and classes list the ids in the same order, also when the dicts
\* supplied list the same ids in different orders.
C34_SameOrderAfterBulkAndSetters ==
    (last.op \in {"init", "set_targets", "set_classes"} /\ last.exc = "ok") =>
        /\ keys_of(t.data) = keys_of(t.targets)
        /\ keys_of(t.data) = keys_of(t.classes)

\* ---- (a + b) - b ----
Summable ==
    /\ num_samples(t) > 0 /\ num_samples(right) > 0
    /\ KeySet(t.data) \cap KeySet(right.data) = {}
    /\ t.num_features = right.num_features

\* C36: for a and b with samplets, disjoint ids and equal num_features, a + b
\* succeeds and (a + b) - b is equal to a: a's ids in a's order, a's features,
\* target and class for every id, a's num_features and feature_names (and a
\* == the result).
C36_SumMinusOtherIsSelf ==
    Summable =>
        /\ (last.op = "add" => res.exc = "ok")
        /\ (last.op = "sub of sum" =>
              /\ res.exc = "ok"
              /\ res.tbl.data = t.data
              /\ res.tbl.targets = t.targets
              /\ res.tbl.classes = t.classes
              /\ res.tbl.num_features = t.num_features
              /\ res.tbl.feature_names = t.feature_names
              /\ eq(res.tbl, t, TRUE) = Bool(TRUE))
C36_Witness ==
    /\ Summable /\ last.op = "sub of sum" /\ res.exc = "ok"
    /\ num_samples(right) = 1 /\ num_samples(res.tbl) = 2
    /\ t.description = "d"
C36_WitnessTwo ==
    /\ Summable /\ last.op = "sub of sum" /\ res.exc = "ok"
    /\ num_samples(right) = 2 /\ num_samples(res.tbl) = 1

\* ---- independence of derived instances ----
Mutations == {"add_sample", "del_sample", "setitem"}

\* C31: an instance obtained by copy construction, get_subset,
\* get_feature_subset, transform, + or - shares nothing with the instances it
\* was derived from: an add_sample, del_sample or __setitem__ on the derived
\* instance leaves the mappings and metadata of a and b as they were, and one
\* on a or b leaves the derived instance (and the other operand) as it was.
C31_DerivedIsIndependent ==
    (base.some /\ last.op \in Mutations) =>
        LET now == Snapshot(args, t, right, base) IN
        /\ (last.arg.on = "d" => (now.a = prev.a /\ now.b = prev.b))
        /\ (last.arg.on = "a" => (now.d = prev.d /\ now.b = prev.b))
        /\ (last.arg.on = "b" => (now.d = prev.d /\ now.a = prev.a))
C31_Witness ==
    /\ base.some /\ base.exc = "get_feature_subset"
    /\ last.op = "setitem" /\ last.arg.on = "d" /\ last.exc = "ok"
    /\ Value(args, base.v) # prev.d
    /\ num_samples(prev.a) = 2
C31_WitnessParent ==
    /\ base.some /\ base.exc = "add"
    /\ last.op = "del_sample" /\ last.arg.on = "b" /\ last.exc = "ok"
    /\ Value(args, right) # prev.b
    /\ num_samples(prev.d) = 3
====
